---- MODULE Spec2Model ----
(***************************************************************************)
(* Invoicey: the invoice domain logic.                                     *)
(*                                                                         *)
(*   Spec          the localStorage-backed services of backend/src         *)
(*                 (storage, invoiceNumberGenerator, invoiceService)       *)
(*   SpecTotals    calculateTotals as a pure function of its arguments     *)
(*   SpecSupabase  the Supabase-backed invoiceService of the frontend and  *)
(*                 the app-context and editor handlers that call it        *)
(*   SpecClients   the localStorage-backed clientService and the invoice   *)
(*                 service called with the stored clients                  *)
(*   SpecTenants   two users, signing in by turns, on both back ends       *)
(*   SpecOverdueLists  Spec, with checkOverdue called on filtered lists    *)
(*   SpecOverlap   create and duplicate requests of one user overlapping   *)
(*   SpecApp       the app context: loadData, addClient, deleteClient,     *)
(*                 sign-in and sign-out, with the awaits interleaved       *)
(*   SpecValidate, SpecMetrics, SpecRecent, SpecSearch                     *)
(*                 validate, metricsService.calculate, the recent-items    *)
(*                 service and the two searches as pure functions          *)
(*                                                                         *)
(* Strings the code formats, parses or compares (invoice numbers, ISO      *)
(* dates) are sequences of UTF-16 code units, so formatting is a function  *)
(* that can fail to be injective and `<` is the lexical order JavaScript   *)
(* uses.  Money is an integer count of 1/100000 currency units: a rate has *)
(* at most three decimals, a tax rate is a whole percentage, so every      *)
(* product the code forms is exact in that unit.                           *)
(***************************************************************************)
EXTENDS Integers, Sequences, FiniteSets, TLC

VARIABLES
    lsAvailable,   \* window.localStorage accepts the probe write of isLocalStorageAvailable
    lsInvoices,    \* localStorage['invoicey_invoices'], parsed ([] when the key is absent)
    lsCounter,     \* localStorage['invoicey_invoice_counter_data'], parsed (NoCounter when absent)
    now,           \* the clock: days elapsed since 31 December 2026
    nextId,        \* the id the next new invoice gets: ids are never handed out twice
    issued,        \* history: the invoice numbers the generator returned, in call order
    last,          \* history: the last service call and how it ended
    calcItems,     \* calculateTotals: the lineItems argument
    calcRate,      \* calculateTotals: the taxRate argument
    calcTotals,    \* calculateTotals: the object returned
    dbInvoices,    \* Supabase table invoices, in insertion order
    dbLineItems,   \* Supabase table line_items, in insertion order
    dbSequence,    \* Supabase table invoice_sequences: each user's last_number, 0 for no row
    lsClients,     \* localStorage['invoicey_clients'], parsed ([] when the key is absent)
    nextClientId,  \* the number in the id the next new client gets
    user,          \* the user signed in: the id supabase.auth.getUser() returns
    fnArgs,        \* a call of a pure function: its arguments
    fnResult,      \* a call of a pure function: what it returned
    requests,      \* the create / duplicate requests under way, each with its position
    dbClients,     \* Supabase table clients, in insertion order
    app,           \* the app context's state: clients, invoices, metrics, isLoading
    loads          \* the calls of loadData under way, each with its position

totalsVars == <<calcItems, calcRate, calcTotals>>

supabaseVars == <<dbInvoices, dbLineItems, dbSequence>>

clientVars == <<lsClients, nextClientId>>

pureVars == <<fnArgs, fnResult>>

appVars == <<dbClients, app, loads>>

vars == <<lsAvailable, lsInvoices, lsCounter, now, nextId, issued, last,
          calcItems, calcRate, calcTotals, dbInvoices, dbLineItems, dbSequence,
          lsClients, nextClientId, user, fnArgs, fnResult, requests, dbClients, app, loads>>

----------------------------------------------------------------------------
(* Bounds of the model *)

MaxInvoices == 2      \* invoices the stored collection may hold
MaxCalls == 2         \* invoice numbers generated in one run
MaxDay == 1           \* days the clock may advance
MaxItems == 2         \* line items in an argument of calculateTotals
MaxQuantity == 3      \* the largest quantity of such a line item
MaxClients == 2       \* clients created in one run
MaxRows == 2          \* rows of line_items one invoice may have
MaxRecent == 3        \* elements in an argument of getRecentInvoices / getRecentClients

----------------------------------------------------------------------------
(* Strings as sequences of code units *)

Min(a, b) == IF a < b THEN a ELSE b

RECURSIVE ToDigits(_)
\* String(n) for a non-negative integer n
ToDigits(n) == IF n < 10 THEN <<48 + n>> ELSE ToDigits(n \div 10) \o <<48 + (n % 10)>>

\* String.prototype.padStart(len, ch)
PadStart(s, len, ch) ==
    IF Len(s) >= len THEN s ELSE [i \in 1..(len - Len(s)) |-> ch] \o s

\* a < b on JavaScript strings: lexical by code unit, a proper prefix is smaller
StrLess(a, b) ==
    LET n == Min(Len(a), Len(b))
        diff == {i \in 1..n : a[i] # b[i]}
    IN  IF diff = {} THEN Len(a) < Len(b)
        ELSE LET i == CHOOSE j \in diff : \A k \in diff : j <= k IN a[i] < b[i]

----------------------------------------------------------------------------
(* The clock *)

\* The calendar day n days after 31 December 2026, into February 2027
DateOf(n) ==
    IF n = 0 THEN [y |-> 2026, m |-> 12, d |-> 31]
    ELSE IF n <= 31 THEN [y |-> 2027, m |-> 1, d |-> n]
    ELSE [y |-> 2027, m |-> 2, d |-> n - 31]

\* new Date().toISOString().split('T')[0]: YYYY-MM-DD
IsoDate(dt) ==
    PadStart(ToDigits(dt.y), 4, 48) \o <<45>> \o PadStart(ToDigits(dt.m), 2, 48)
        \o <<45>> \o PadStart(ToDigits(dt.d), 2, 48)

getCurrentDate == IsoDate(DateOf(now))

getCurrentYear == DateOf(now).y

----------------------------------------------------------------------------
(* storage.ts *)

NoCounter == [year |-> 0, sequence |-> 0]

\* storage.get<CounterData>(COUNTER_STORAGE_KEY): null when localStorage is unavailable
getCounterData == IF lsAvailable THEN lsCounter ELSE NoCounter

\* storage.getInvoices(): get(...) ?? []
getInvoices == IF lsAvailable THEN lsInvoices ELSE <<>>

\* storage.set: the value localStorage holds after set(key, value); a write that
\* localStorage does not accept is dropped with a console warning
StorageSet(old, value) == IF lsAvailable THEN value ELSE old

----------------------------------------------------------------------------
(* invoiceNumberGenerator *)

\* getNextSequence without the increment
getNextSequenceStale ==
    LET counterData == getCounterData
    IN  IF counterData = NoCounter THEN 1
        ELSE IF counterData.year # getCurrentYear THEN 1
        ELSE counterData.sequence

getNextSequence ==
    LET counterData == getCounterData
    IN  IF counterData = NoCounter THEN 1
        ELSE IF counterData.year # getCurrentYear THEN 1
        ELSE counterData.sequence + 1

\* INV-YYYY-NNN
FormatInvoiceNumber(year, sequence) ==
    <<73, 78, 86, 45>> \o ToDigits(year) \o <<45>> \o PadStart(ToDigits(sequence), 3, 48)

\* generate(): the counter it hands to setCounterData and the string it returns
GenerateCounter == [year |-> getCurrentYear, sequence |-> getNextSequence]

GenerateNumber == FormatInvoiceNumber(getCurrentYear, getNextSequence)

----------------------------------------------------------------------------
(* Values the callers supply *)

\* an optional field that is left out
Undefined == <<-1>>

Blank == <<>>                       \* ''
Space == <<32>>                     \* ' '
IdC1 == <<99, 49>>                  \* 'c1'
IdC2 == <<99, 50>>                  \* 'c2'

Client1 == [id |-> IdC1, name |-> "Acme"]
Client2 == [id |-> IdC2, name |-> "Bolt"]

\* the client collections a caller passes as `clients`
ClientLists == {<<Client1>>, <<Client1, Client2>>}

\* status?: InvoiceStatus; "none" is the omitted field
Statuses == {"draft", "sent", "paid", "overdue"}
StatusInputs == Statuses \cup {"none"}

\* notes?: string
Notes == {"thanks"}

\* due dates in the YYYY-MM-DD form the date inputs produce
DueDates == {IsoDate(DateOf(0))}
IssueDates == {IsoDate(DateOf(0))}

\* LineItemInput: quantity a whole number, rate in thousandths of the currency unit
ItemWork == [description |-> <<119>>, quantity |-> 1, rate |-> 1005]
ItemHalf == [description |-> Space, quantity |-> 3, rate |-> 1335]

\* the forms a caller submits: two that validate() accepts, one of them under
\* every status, and two it rejects (no client chosen; no line item with a
\* description)
ValidInputs ==
    [clientId : {IdC1}, issueDate : IssueDates, dueDate : DueDates,
     lineItems : {<<ItemWork>>}, notes : Notes, status : StatusInputs]
    \cup
    [clientId : {IdC2}, issueDate : IssueDates, dueDate : DueDates,
     lineItems : {<<ItemHalf, ItemWork>>}, notes : Notes, status : {"none"}]

InvalidInputs ==
    [clientId : {Blank}, issueDate : IssueDates, dueDate : DueDates,
     lineItems : {<<ItemWork>>}, notes : Notes, status : {"none"}]
    \cup
    [clientId : {IdC1}, issueDate : IssueDates, dueDate : DueDates,
     lineItems : {<<ItemHalf>>}, notes : Notes, status : {"none"}]

InvoiceInputs == ValidInputs \cup InvalidInputs

----------------------------------------------------------------------------
(* invoiceService.ts: pure parts *)

\* String.prototype.trim() on the strings used here: strips spaces at both ends
RECURSIVE Trim(_)
Trim(s) ==
    IF s = <<>> THEN s
    ELSE IF Head(s) = 32 THEN Trim(Tail(s))
    ELSE IF s[Len(s)] = 32 THEN Trim(SubSeq(s, 1, Len(s) - 1))
    ELSE s

\* Math.round(x * 100) / 100 on an amount x held in 1/100000 units: the nearest
\* cent, a half cent going up (Math.round rounds halves toward +Infinity)
Round2(x) == ((x + 500) \div 1000) * 1000

\* quantity * rate, in 1/100000 units
Product(item) == item.quantity * item.rate * 100

RECURSIVE SumProducts(_)
\* lineItems.reduce((sum, item) => sum + item.quantity * item.rate, 0)
SumProducts(items) ==
    IF items = <<>> THEN 0 ELSE Product(Head(items)) + SumProducts(Tail(items))

\* calculateTotals with each step computed from the rounded result before it
calculateTotalsChained(lineItems, taxRate) ==
    LET subtotal == Round2(SumProducts(lineItems))
        tax == Round2((subtotal * taxRate) \div 100)
    IN  [subtotal |-> subtotal, tax |-> tax, total |-> Round2(subtotal + tax)]

\* calculateTotals(lineItems, taxRate): each result rounded on its own from the
\* unrounded subtotal
calculateTotals(lineItems, taxRate) ==
    LET subtotal == SumProducts(lineItems)
        tax == (subtotal * taxRate) \div 100
        total == subtotal + tax
    IN  [subtotal |-> Round2(subtotal), tax |-> Round2(tax), total |-> Round2(total)]

\* the default of calculateTotals' taxRate parameter
DefaultTaxRate == 10

\* obj.field is not undefined: the object has the field
Has(obj, field) == field \in DOMAIN obj

\* item.description && item.description.trim() !== ''
hasDescription(item) == Has(item, "description") /\ Trim(item.description) # <<>>

\* validate as it would be with the strings compared untrimmed
validateUntrimmed(input) ==
    (IF ~ Has(input, "clientId") \/ input.clientId = <<>> THEN {"clientId"} ELSE {})
    \cup
    (IF \/ ~ Has(input, "lineItems")
        \/ input.lineItems = <<>>
        \/ ~ \E i \in 1..Len(input.lineItems) :
                 Has(input.lineItems[i], "description") /\ input.lineItems[i].description # <<>>
     THEN {"lineItems"} ELSE {})

\* the keys of validate(input).errors
validate(input) ==
    (IF ~ Has(input, "clientId") \/ Trim(input.clientId) = <<>> THEN {"clientId"} ELSE {})
    \cup
    (IF \/ ~ Has(input, "lineItems")
        \/ input.lineItems = <<>>
        \/ ~ \E i \in 1..Len(input.lineItems) : hasDescription(input.lineItems[i])
     THEN {"lineItems"} ELSE {})

\* validate(input): { valid: Object.keys(errors).length === 0, errors }
ValidationResult(input) ==
    LET errors == validate(input)
    IN  [valid |-> Cardinality(errors) = 0, errors |-> errors]

\* createLineItem(input), with the id generateLineItemId() returned
createLineItem(item, id) ==
    [id |-> id, description |-> item.description, quantity |-> item.quantity,
     rate |-> item.rate, amount |-> Round2(Product(item))]

\* generateLineItemId(), n times, for the line items of one invoice.  The code
\* draws each id from the clock and Math.random; the model names an id by the
\* invoice it is drawn for, a generation and a position, and takes the
\* generation that none of the line items being replaced carries, so the ids
\* are ones no stored line item has
FreshItemIds(invoiceId, replaced, n) ==
    LET generation == IF \E j \in 1..Len(replaced) : replaced[j].id[2] = 0 THEN 1 ELSE 0
    IN  [k \in 1..n |-> <<invoiceId, generation, k>>]

\* input.lineItems.map(createLineItem), with the ids generateLineItemId() returned
createLineItems(items, ids) ==
    [i \in 1..Len(items) |-> createLineItem(items[i], ids[i])]

\* clients.find(c => c.id === id): the index of the first match, 0 for undefined
FindClient(clients, id) ==
    IF \E i \in 1..Len(clients) : clients[i].id = id
    THEN CHOOSE i \in 1..Len(clients) :
            clients[i].id = id /\ \A j \in 1..(i - 1) : clients[j].id # id
    ELSE 0

\* invoices.findIndex(invoice => invoice.id === id), 1-based; 0 for -1
FindIndex(invoices, id) ==
    IF \E i \in 1..Len(invoices) : invoices[i].id = id
    THEN CHOOSE i \in 1..Len(invoices) :
            invoices[i].id = id /\ \A j \in 1..(i - 1) : invoices[j].id # id
    ELSE 0

\* the newInvoice object of create()
NewInvoice(input, client, lineItems, id, invoiceNumber, today) ==
    LET totals == calculateTotals(input.lineItems, DefaultTaxRate)
    IN  [id |-> id, invoiceNumber |-> invoiceNumber, clientId |-> input.clientId,
         client |-> client,
         status |-> IF input.status = "none" THEN "draft" ELSE input.status,
         issueDate |-> input.issueDate, dueDate |-> input.dueDate,
         lineItems |-> lineItems,
         subtotal |-> totals.subtotal, tax |-> totals.tax, total |-> totals.total,
         notes |-> input.notes, createdAt |-> today]

\* the updatedInvoice object with create()'s default for an omitted status
UpdatedInvoiceDraftDefault(existingInvoice, input, client, lineItems) ==
    LET totals == calculateTotals(input.lineItems, DefaultTaxRate)
    IN  [id |-> existingInvoice.id, invoiceNumber |-> existingInvoice.invoiceNumber,
         clientId |-> input.clientId, client |-> client,
         status |-> IF input.status = "none" THEN "draft" ELSE input.status,
         issueDate |-> input.issueDate, dueDate |-> input.dueDate,
         lineItems |-> lineItems,
         subtotal |-> totals.subtotal, tax |-> totals.tax, total |-> totals.total,
         notes |-> input.notes, createdAt |-> existingInvoice.createdAt]

\* the updatedInvoice object of update()
UpdatedInvoice(existingInvoice, input, client, lineItems) ==
    LET totals == calculateTotals(input.lineItems, DefaultTaxRate)
    IN  [id |-> existingInvoice.id, invoiceNumber |-> existingInvoice.invoiceNumber,
         clientId |-> input.clientId, client |-> client,
         status |-> IF input.status = "none" THEN existingInvoice.status ELSE input.status,
         issueDate |-> input.issueDate, dueDate |-> input.dueDate,
         lineItems |-> lineItems,
         subtotal |-> totals.subtotal, tax |-> totals.tax, total |-> totals.total,
         notes |-> input.notes, createdAt |-> existingInvoice.createdAt]

\* the newInvoice object as a straight copy of the original under a new id and number
DuplicateInvoiceCopy(original, client, itemIds, id, invoiceNumber, today) ==
    [id |-> id, invoiceNumber |-> invoiceNumber, clientId |-> original.clientId,
     client |-> client, status |-> original.status, issueDate |-> original.issueDate,
     dueDate |-> original.dueDate,
     lineItems |-> [i \in 1..Len(original.lineItems) |->
                       [original.lineItems[i] EXCEPT !.id = itemIds[i]]],
     subtotal |-> original.subtotal, tax |-> original.tax, total |-> original.total,
     notes |-> original.notes, createdAt |-> today]

\* the newInvoice object of duplicate()
DuplicateInvoice(original, client, itemIds, id, invoiceNumber, today) ==
    [id |-> id, invoiceNumber |-> invoiceNumber, clientId |-> original.clientId,
     client |-> client, status |-> "draft", issueDate |-> today,
     dueDate |-> original.dueDate,
     lineItems |-> [i \in 1..Len(original.lineItems) |->
                       [original.lineItems[i] EXCEPT !.id = itemIds[i]]],
     subtotal |-> original.subtotal, tax |-> original.tax, total |-> original.total,
     notes |-> original.notes, createdAt |-> today]

\* the callback with dueDate <= today for dueDate < today
OverdueInvoiceInclusive(invoice, today) ==
    IF invoice.status = "sent" /\ ~ StrLess(today, invoice.dueDate)
    THEN [invoice EXCEPT !.status = "overdue"]
    ELSE invoice

\* the callback checkOverdue maps over the list
OverdueInvoice(invoice, today) ==
    IF invoice.status = "sent" /\ StrLess(invoice.dueDate, today)
    THEN [invoice EXCEPT !.status = "overdue"]
    ELSE invoice

\* checkOverdue(invoices): the list it returns, and its hasChanges flag
checkOverdue(invoices, today) ==
    [i \in 1..Len(invoices) |-> OverdueInvoice(invoices[i], today)]

hasChanges(invoices, today) ==
    \E i \in 1..Len(invoices) : OverdueInvoice(invoices[i], today) # invoices[i]

----------------------------------------------------------------------------
(* The calls a client of the services makes; each is one synchronous handler *)

\* the history kept of a call: the operation and how it ended
Call(op, outcome) == [op |-> op, outcome |-> outcome]

\* a call that threw: validation failed, or the invoice or the client was not found
Thrown == Call("any", "error")

\* the ids a caller names: those of the stored invoices, and 0, which no invoice has
Ids == {lsInvoices[i].id : i \in 1..Len(lsInvoices)} \cup {0}

\* invoiceNumberGenerator.generate(), called directly
Generate ==
    /\ Len(issued) < MaxCalls
    /\ lsCounter' = StorageSet(lsCounter, GenerateCounter)
    /\ issued' = Append(issued, GenerateNumber)
    /\ last' = Call("generate", "ok")
    /\ UNCHANGED <<user, pureVars, requests, appVars, totalsVars, supabaseVars, clientVars, lsAvailable, lsInvoices, now, nextId>>

\* create() drawing the invoice number before it looks the client up
CreateNumberFirst(input, clients) ==
    LET c == FindClient(clients, input.clientId)
        invoices == getInvoices
        n == Len(input.lineItems)
        lineItems == createLineItems(input.lineItems, FreshItemIds(nextId, <<>>, n))
        newInvoice == NewInvoice(input, clients[c], lineItems, nextId, GenerateNumber,
                                 getCurrentDate)
    IN  IF validate(input) # {}
        THEN /\ last' = Thrown
             /\ UNCHANGED <<user, pureVars, requests, appVars, totalsVars, supabaseVars, clientVars, lsAvailable, lsInvoices, lsCounter, now, nextId, issued>>
        ELSE /\ Len(issued) < MaxCalls
             /\ lsCounter' = StorageSet(lsCounter, GenerateCounter)
             /\ issued' = Append(issued, GenerateNumber)
             /\ IF c = 0
                THEN /\ last' = Thrown
                     /\ UNCHANGED <<lsInvoices, nextId>>
                ELSE /\ Len(invoices) < MaxInvoices
                     /\ lsInvoices' = StorageSet(lsInvoices, Append(invoices, newInvoice))
                     /\ nextId' = nextId + 1
                     /\ last' = Call("create", "ok")
             /\ UNCHANGED <<user, pureVars, requests, appVars, totalsVars, supabaseVars, clientVars, lsAvailable, now>>

\* invoiceService.create(input, clients)
Create(input, clients) ==
    LET c == FindClient(clients, input.clientId)
        invoices == getInvoices
        n == Len(input.lineItems)
        lineItems == createLineItems(input.lineItems, FreshItemIds(nextId, <<>>, n))
        newInvoice == NewInvoice(input, clients[c], lineItems, nextId, GenerateNumber,
                                 getCurrentDate)
    IN  IF validate(input) # {}
        THEN /\ last' = Thrown
             /\ UNCHANGED <<user, pureVars, requests, appVars, totalsVars, supabaseVars, clientVars, lsAvailable, lsInvoices, lsCounter, now, nextId, issued>>
        ELSE IF c = 0
        THEN /\ last' = Thrown
             /\ UNCHANGED <<user, pureVars, requests, appVars, totalsVars, supabaseVars, clientVars, lsAvailable, lsInvoices, lsCounter, now, nextId, issued>>
        ELSE /\ Len(issued) < MaxCalls
             /\ Len(invoices) < MaxInvoices
             /\ lsCounter' = StorageSet(lsCounter, GenerateCounter)
             /\ lsInvoices' = StorageSet(lsInvoices, Append(invoices, newInvoice))
             /\ issued' = Append(issued, GenerateNumber)
             /\ nextId' = nextId + 1
             /\ last' = Call("create", "ok")
             /\ UNCHANGED <<user, pureVars, requests, appVars, totalsVars, supabaseVars, clientVars, lsAvailable, now>>

\* invoiceService.update(id, input, clients)
Update(id, input, clients) ==
    LET invoices == getInvoices
        index == FindIndex(invoices, id)
        c == FindClient(clients, input.clientId)
        n == Len(input.lineItems)
        lineItems == createLineItems(input.lineItems,
                                     FreshItemIds(id, invoices[index].lineItems, n))
        updatedInvoice == UpdatedInvoice(invoices[index], input, clients[c], lineItems)
    IN  IF validate(input) # {}
        THEN /\ last' = Thrown
             /\ UNCHANGED <<user, pureVars, requests, appVars, totalsVars, supabaseVars, clientVars, lsAvailable, lsInvoices, lsCounter, now, nextId, issued>>
        ELSE IF index = 0
        THEN /\ last' = Thrown
             /\ UNCHANGED <<user, pureVars, requests, appVars, totalsVars, supabaseVars, clientVars, lsAvailable, lsInvoices, lsCounter, now, nextId, issued>>
        ELSE IF c = 0
        THEN /\ last' = Thrown
             /\ UNCHANGED <<user, pureVars, requests, appVars, totalsVars, supabaseVars, clientVars, lsAvailable, lsInvoices, lsCounter, now, nextId, issued>>
        ELSE /\ lsInvoices' = StorageSet(lsInvoices, [invoices EXCEPT ![index] = updatedInvoice])
             /\ last' = Call("update", "ok")
             /\ UNCHANGED <<user, pureVars, requests, appVars, totalsVars, supabaseVars, clientVars, lsAvailable, lsCounter, now, nextId, issued>>

\* invoices.splice(index, 1)
Splice(invoices, index) ==
    [i \in 1..(Len(invoices) - 1) |-> IF i < index THEN invoices[i] ELSE invoices[i + 1]]

\* invoiceService.delete(id)
DeleteInvoice(id) ==
    LET invoices == getInvoices
        index == FindIndex(invoices, id)
    IN  IF index = 0
        THEN /\ last' = Thrown
             /\ UNCHANGED <<user, pureVars, requests, appVars, totalsVars, supabaseVars, clientVars, lsAvailable, lsInvoices, lsCounter, now, nextId, issued>>
        ELSE /\ lsInvoices' = StorageSet(lsInvoices, Splice(invoices, index))
             /\ last' = Call("delete", "ok")
             /\ UNCHANGED <<user, pureVars, requests, appVars, totalsVars, supabaseVars, clientVars, lsAvailable, lsCounter, now, nextId, issued>>

\* a status overwrite that moves the invoice to the end of the collection
MarkAsMovingLast(op, id, status) ==
    LET invoices == getInvoices
        index == FindIndex(invoices, id)
    IN  IF index = 0
        THEN /\ last' = Thrown
             /\ UNCHANGED <<user, pureVars, requests, appVars, totalsVars, supabaseVars, clientVars, lsAvailable, lsInvoices, lsCounter, now, nextId, issued>>
        ELSE /\ lsInvoices' = StorageSet(lsInvoices,
                                  Append(Splice(invoices, index),
                                         [invoices[index] EXCEPT !.status = status]))
             /\ last' = Call(op, "ok")
             /\ UNCHANGED <<user, pureVars, requests, appVars, totalsVars, supabaseVars, clientVars, lsAvailable, lsCounter, now, nextId, issued>>

\* the body shared by markAsPaid(id) and markAsSent(id): a status overwrite
MarkAs(op, id, status) ==
    LET invoices == getInvoices
        index == FindIndex(invoices, id)
    IN  IF index = 0
        THEN /\ last' = Thrown
             /\ UNCHANGED <<user, pureVars, requests, appVars, totalsVars, supabaseVars, clientVars, lsAvailable, lsInvoices, lsCounter, now, nextId, issued>>
        ELSE /\ lsInvoices' = StorageSet(lsInvoices,
                                  [invoices EXCEPT ![index] = [@ EXCEPT !.status = status]])
             /\ last' = Call(op, "ok")
             /\ UNCHANGED <<user, pureVars, requests, appVars, totalsVars, supabaseVars, clientVars, lsAvailable, lsCounter, now, nextId, issued>>

MarkAsPaid(id) == MarkAs("markAsPaid", id, "paid")

MarkAsSent(id) == MarkAs("markAsSent", id, "sent")

\* invoiceService.checkOverdue(invoiceService.getAll())
CheckOverdue ==
    LET invoices == getInvoices
        today == getCurrentDate
    IN  /\ lsInvoices' = IF hasChanges(invoices, today)
                         THEN StorageSet(lsInvoices, checkOverdue(invoices, today))
                         ELSE lsInvoices
        /\ last' = Call("checkOverdue", IF hasChanges(invoices, today) THEN "ok" ELSE "noChange")
        /\ UNCHANGED <<user, pureVars, requests, appVars, totalsVars, supabaseVars, clientVars, lsAvailable, lsCounter, now, nextId, issued>>

\* invoiceService.duplicate(id, clients)
Duplicate(id, clients) ==
    LET invoices == getInvoices
        index == FindIndex(invoices, id)
        original == invoices[index]
        c == FindClient(clients, original.clientId)
        n == Len(original.lineItems)
        newInvoice == DuplicateInvoice(original, clients[c], FreshItemIds(nextId, <<>>, n),
                                       nextId, GenerateNumber, getCurrentDate)
    IN  IF index = 0
        THEN /\ last' = Thrown
             /\ UNCHANGED <<user, pureVars, requests, appVars, totalsVars, supabaseVars, clientVars, lsAvailable, lsInvoices, lsCounter, now, nextId, issued>>
        ELSE IF c = 0
        THEN /\ last' = Thrown
             /\ UNCHANGED <<user, pureVars, requests, appVars, totalsVars, supabaseVars, clientVars, lsAvailable, lsInvoices, lsCounter, now, nextId, issued>>
        ELSE /\ Len(issued) < MaxCalls
             /\ Len(invoices) < MaxInvoices
             /\ lsCounter' = StorageSet(lsCounter, GenerateCounter)
             /\ lsInvoices' = StorageSet(lsInvoices, Append(invoices, newInvoice))
             /\ issued' = Append(issued, GenerateNumber)
             /\ nextId' = nextId + 1
             /\ last' = Call("duplicate", "ok")
             /\ UNCHANGED <<user, pureVars, requests, appVars, totalsVars, supabaseVars, clientVars, lsAvailable, now>>

\* a day passes
Tick ==
    /\ now < MaxDay
    /\ now' = now + 1
    /\ UNCHANGED <<user, pureVars, requests, appVars, totalsVars, supabaseVars, clientVars, lsAvailable, lsInvoices, lsCounter, nextId, issued, last>>

NoCall == Call("none", "ok")

\* no call of calculateTotals made
NoTotals == [subtotal |-> -1, tax |-> -1, total |-> -1]

TotalsIdle ==
    /\ calcItems = <<>>
    /\ calcRate = 0
    /\ calcTotals = NoTotals

\* the users of the application
Users == {"A", "B"}

\* the calls of loadData that may be under way at a time
Loads == {1, 2}

\* a call of loadData not made, or over
NoLoad == [pc |-> "idle"]

\* the app context as useState initialises it; `latest` is history: the call of loadData
\* started last, 0 for none
NoApp == [clients |-> <<>>, invoices |-> <<>>, totalClients |-> 0, isLoading |-> TRUE,
          latest |-> 0]

\* a database with no invoice and one client, 'c1' of user A
DbIdle ==
    /\ dbInvoices = <<>>
    /\ dbLineItems = <<>>
    /\ dbSequence = [u \in Users |-> 0]
    /\ dbClients = <<[id |-> IdC1, user_id |-> "A"]>>

\* that database, and no app context at work
SupabaseIdle ==
    /\ DbIdle
    /\ app = NoApp
    /\ loads = [l \in Loads |-> NoLoad]

\* no call of a pure function made
NoResult == [op |-> "none"]

\* the requests that may overlap
Requests == {1, 2}

\* a request not made yet
NoRequest == [pc |-> "idle"]

PureIdle ==
    /\ fnArgs = <<>>
    /\ fnResult = NoResult
    /\ requests = [r \in Requests |-> NoRequest]

\* no client stored
ClientsIdle ==
    /\ lsClients = <<>>
    /\ nextClientId = 1

\* a fresh browser profile: nothing stored; localStorage usable or not
Init ==
    /\ lsAvailable \in BOOLEAN
    /\ lsInvoices = <<>>
    /\ lsCounter = NoCounter
    /\ now = 0
    /\ nextId = 1
    /\ issued = <<>>
    /\ last = NoCall
    /\ TotalsIdle
    /\ SupabaseIdle
    /\ ClientsIdle
    /\ user = "A"
    /\ PureIdle

Next ==
    \/ Generate
    \/ \E input \in InvoiceInputs, clients \in ClientLists : Create(input, clients)
    \/ \E id \in Ids, input \in InvoiceInputs, clients \in ClientLists : Update(id, input, clients)
    \/ \E id \in Ids : DeleteInvoice(id)
    \/ \E id \in Ids : MarkAsPaid(id)
    \/ \E id \in Ids : MarkAsSent(id)
    \/ CheckOverdue
    \/ \E id \in Ids, clients \in ClientLists : Duplicate(id, clients)
    \/ Tick

Spec == Init /\ [][Next]_vars

----------------------------------------------------------------------------
(* C1 .. C6, C10: the localStorage-backed services *)

\* the stored invoices with one id before and after a step
SameInvoice(i, j) == lsInvoices[i].id = lsInvoices'[j].id

\* C1: under sequential calls with the year never decreasing, the numbers
\* generate() returned (called directly or by create / duplicate) are pairwise
\* distinct.
C1_NumbersPairwiseDistinct ==
    \A i, j \in 1..Len(issued) : i # j => issued[i] # issued[j]

\* C2: a call of generate() with a counter stored for the current year persists
\* that sequence + 1; with no counter stored, or one for another year, it
\* persists {year: currentYear, sequence: 1}; the number returned carries the
\* sequence just persisted.
C2_SteppingRule ==
    [][Len(issued') = Len(issued) + 1 =>
        /\ (lsCounter # NoCounter /\ lsCounter.year = getCurrentYear) =>
               lsCounter' = [year |-> getCurrentYear, sequence |-> lsCounter.sequence + 1]
        /\ (lsCounter = NoCounter \/ lsCounter.year # getCurrentYear) =>
               lsCounter' = [year |-> getCurrentYear, sequence |-> 1]
        /\ issued'[Len(issued')]
               = FormatInvoiceNumber(lsCounter'.year, lsCounter'.sequence)]_vars

\* C3: whatever invoiceService operations run, a stored invoice keeps the
\* invoiceNumber it was created or duplicated with, and no two stored invoices
\* share an invoiceNumber.
C3_NumberKeptAndUnique ==
    /\ [](\A i, j \in 1..Len(lsInvoices) :
            i # j => lsInvoices[i].invoiceNumber # lsInvoices[j].invoiceNumber)
    /\ [][\A i \in 1..Len(lsInvoices), j \in 1..Len(lsInvoices') :
             SameInvoice(i, j) => lsInvoices'[j].invoiceNumber = lsInvoices[i].invoiceNumber]_vars

\* C3 witness: two invoices are stored, numbered in different years, and one of
\* them has since been updated (its line items are of the second generation)
C3_Witness ==
    /\ Len(lsInvoices) = 2
    /\ lsInvoices[1].createdAt # lsInvoices[2].createdAt
    /\ \E i \in 1..2 : lsInvoices[i].lineItems[1].id[2] = 1
    /\ last = Call("update", "ok")

\* C4: no operation leaves an invoice that was sent, paid or overdue with
\* status draft.
C4_NeverBackToDraft ==
    [][\A i \in 1..Len(lsInvoices), j \in 1..Len(lsInvoices') :
          (SameInvoice(i, j) /\ lsInvoices[i].status \in {"sent", "paid", "overdue"})
              => lsInvoices'[j].status # "draft"]_vars

\* C5: paid is terminal: no operation leaves an invoice that was paid with any
\* other status, for as long as the invoice is stored.
C5_PaidIsTerminal ==
    [][\A i \in 1..Len(lsInvoices), j \in 1..Len(lsInvoices') :
          (SameInvoice(i, j) /\ lsInvoices[i].status = "paid")
              => lsInvoices'[j].status = "paid"]_vars

\* the calendar order of YYYY-MM-DD strings: year, month and day read as numbers
DateValue(s) ==
    LET digit(i) == s[i] - 48
    IN  (digit(1) * 1000 + digit(2) * 100 + digit(3) * 10 + digit(4)) * 10000
        + (digit(6) * 10 + digit(7)) * 100 + digit(9) * 10 + digit(10)

\* what C6 expects of checkOverdue for one invoice
ExpectedOverdue(invoice) ==
    IF invoice.status = "sent" /\ DateValue(invoice.dueDate) < DateValue(getCurrentDate)
    THEN [invoice EXCEPT !.status = "overdue"]
    ELSE invoice

\* C6: for the stored list, checkOverdue returns a list of the same length and
\* order in which each sent invoice due strictly before today is overdue and
\* every other invoice is as it was; applied to its own result on the same day
\* it changes nothing and sees nothing to write; and the call writes exactly
\* that list.
C6_CheckOverdue ==
    /\ [](LET result == checkOverdue(lsInvoices, getCurrentDate)
          IN  /\ Len(result) = Len(lsInvoices)
              /\ \A i \in 1..Len(lsInvoices) : result[i] = ExpectedOverdue(lsInvoices[i])
              /\ checkOverdue(result, getCurrentDate) = result
              /\ ~ hasChanges(result, getCurrentDate))
    /\ [][CheckOverdue =>
             /\ Len(lsInvoices') = Len(lsInvoices)
             /\ \A i \in 1..Len(lsInvoices) : lsInvoices'[i] = ExpectedOverdue(lsInvoices[i])]_vars

\* C6 witness: checkOverdue has just turned a sent invoice overdue and left
\* another stored invoice, which is not overdue, as it was
C6_Witness ==
    /\ last = Call("checkOverdue", "ok")
    /\ Len(lsInvoices) = 2
    /\ \E i, j \in 1..2 : lsInvoices[i].status = "overdue" /\ lsInvoices[j].status # "overdue"

\* C10: update(id, input, clients) of a stored invoice with valid input keeps
\* the invoice's id, invoiceNumber, createdAt and position, keeps its status
\* when input.status is omitted, replaces its line items and totals by those
\* of the input, and leaves every other stored invoice as it was.
C10_UpdateFrame ==
    [][\A id \in Ids, input \in InvoiceInputs, clients \in ClientLists :
          (/\ last' = Call("update", "ok")
           /\ FindIndex(lsInvoices, id) # 0
           /\ validate(input) = {}
           /\ Update(id, input, clients)) =>
            LET index == FindIndex(lsInvoices, id)
                old == lsInvoices[index]
                new == lsInvoices'[index]
                sum == SumProducts(input.lineItems)
            IN  /\ Len(lsInvoices') = Len(lsInvoices)
                /\ new.id = id
                /\ new.invoiceNumber = old.invoiceNumber
                /\ new.createdAt = old.createdAt
                /\ input.status = "none" => new.status = old.status
                /\ Len(new.lineItems) = Len(input.lineItems)
                /\ \A k \in 1..Len(new.lineItems) :
                      /\ new.lineItems[k].description = input.lineItems[k].description
                      /\ new.lineItems[k].quantity = input.lineItems[k].quantity
                      /\ new.lineItems[k].rate = input.lineItems[k].rate
                      /\ new.lineItems[k].amount = Round2(Product(input.lineItems[k]))
                      /\ \A m \in 1..Len(old.lineItems) :
                            new.lineItems[k].id # old.lineItems[m].id
                /\ new.subtotal = Round2(sum)
                /\ new.tax = Round2((sum * 10) \div 100)
                /\ new.total = Round2(sum + (sum * 10) \div 100)
                /\ \A k \in 1..Len(lsInvoices) : k # index => lsInvoices'[k] = lsInvoices[k]]_vars

\* C10 witness: an update has just replaced the line items of a paid invoice
\* created on an earlier day, with another invoice stored beside it
C10_Witness ==
    /\ last = Call("update", "ok")
    /\ Len(lsInvoices) = 2
    /\ \E i \in 1..2 :
          /\ lsInvoices[i].status = "paid"
          /\ lsInvoices[i].lineItems[1].id[2] = 1
          /\ lsInvoices[i].createdAt # getCurrentDate

\* C16: every call of the localStorage-backed invoiceService that ends in a
\* thrown error (create or update with input that fails validate; create,
\* update or duplicate whose client is not in the supplied clients; update,
\* delete, markAsPaid, markAsSent or duplicate of an id that is not stored)
\* leaves the stored invoices and the stored sequence counter as they were.
C16_ThrownLeavesStorage ==
    [][last' = Thrown => (lsInvoices' = lsInvoices /\ lsCounter' = lsCounter)]_vars

\* C16 witness: a call has just thrown with two invoices and a counter stored
C16_Witness ==
    /\ last = Thrown
    /\ Len(lsInvoices) = 2
    /\ lsCounter # NoCounter

\* what markAsPaid / markAsSent leave of the stored state: the invoice at one
\* place with the status given and nothing else different
StatusOverwritten(index, status) ==
    /\ Len(lsInvoices') = Len(lsInvoices)
    /\ lsInvoices'[index].status = status
    /\ \A field \in DOMAIN lsInvoices[index] \ {"status"} :
          lsInvoices'[index][field] = lsInvoices[index][field]
    /\ DOMAIN lsInvoices'[index] = DOMAIN lsInvoices[index]
    /\ \A i \in 1..Len(lsInvoices) : i # index => lsInvoices'[i] = lsInvoices[i]
    /\ lsCounter' = lsCounter

\* C25: markAsPaid(id) and markAsSent(id) on a stored invoice set only that
\* invoice's status (to paid, respectively sent) from any prior status: every
\* other field of that invoice, its position in the collection, every other
\* stored invoice, and the sequence counter are unchanged.
C25_MarkFrame ==
    [][\A id \in Ids :
          FindIndex(getInvoices, id) # 0 =>
             /\ MarkAsPaid(id) =>
                   /\ last' = Call("markAsPaid", "ok")
                   /\ StatusOverwritten(FindIndex(getInvoices, id), "paid")
             /\ MarkAsSent(id) =>
                   /\ last' = Call("markAsSent", "ok")
                   /\ StatusOverwritten(FindIndex(getInvoices, id), "sent")]_vars

\* markAsPaid has acted on the first of two stored invoices, a day after it
\* fell due, and the second is as it was created
C25_Witness ==
    /\ last = Call("markAsPaid", "ok")
    /\ Len(lsInvoices) = 2
    /\ lsInvoices[1].status = "paid"
    /\ lsInvoices[2].status = "draft"
    /\ now = 1

----------------------------------------------------------------------------
(* checkOverdue called with a list other than the whole collection *)

\* invoiceService.filterByStatus(status, invoices)
filterByStatus(status, invoices) ==
    IF status = "all" THEN invoices
    ELSE SelectSeq(invoices, LAMBDA invoice : invoice.status = status)

\* invoiceService.checkOverdue(invoices): the updated argument is what is persisted
CheckOverdueOn(invoices) ==
    LET today == getCurrentDate
    IN  /\ lsInvoices' = IF hasChanges(invoices, today)
                         THEN StorageSet(lsInvoices, checkOverdue(invoices, today))
                         ELSE lsInvoices
        /\ last' = Call("checkOverdue", IF hasChanges(invoices, today) THEN "ok" ELSE "noChange")
        /\ UNCHANGED <<user, pureVars, requests, appVars, totalsVars, supabaseVars, clientVars, lsAvailable,
                       lsCounter, now, nextId, issued>>

\* invoiceService.checkOverdue(invoiceService.filterByStatus(status, invoiceService.getAll()))
CheckOverdueFiltered(status) == CheckOverdueOn(filterByStatus(status, getInvoices))

OverdueListsNext ==
    \/ Next
    \/ \E status \in Statuses \cup {"all"} : CheckOverdueFiltered(status)

SpecOverdueLists == Init /\ [][OverdueListsNext]_vars

\* the ids of the stored invoices
StoredIds == {lsInvoices[i].id : i \in 1..Len(lsInvoices)}

\* C26: checkOverdue never adds or removes stored invoices: for an argument
\* list obtained from the store (the full collection or a filtered subset of
\* it), the set of invoice ids in storage after the call equals the set before
\* the call, and the only stored fields that may differ are statuses changed
\* from sent to overdue.
C26_CheckOverdueKeepsInvoices ==
    [][(CheckOverdue \/ \E status \in Statuses \cup {"all"} : CheckOverdueFiltered(status)) =>
          /\ StoredIds' = StoredIds
          /\ \A i \in 1..Len(lsInvoices), j \in 1..Len(lsInvoices') :
                SameInvoice(i, j) =>
                   \/ lsInvoices'[j] = lsInvoices[i]
                   \/ /\ lsInvoices[i].status = "sent"
                      /\ lsInvoices'[j] = [lsInvoices[i] EXCEPT !.status = "overdue"]]_vars

----------------------------------------------------------------------------
(* clientService, and the invoice service called with the stored clients *)

\* storage.getClients(): get(...) ?? []
getClients == IF lsAvailable THEN lsClients ELSE <<>>

\* generateId() of the client service.  The code draws the id from the clock
\* and Math.random; the model numbers the ids in the order they are drawn, so
\* the first two are 'c1' and 'c2'
ClientId(n) == <<99, 48 + n>>

\* ClientInput: two forms validate() accepts, one with spaces to trim and no
\* optional field, one with every optional field; and two it rejects (a name
\* of one space; no email)
ClientInputs ==
    { [name |-> <<32, 65>>, email |-> <<97, 64, 120>>, company |-> Undefined,
       phone |-> Undefined, address |-> Undefined],
      [name |-> <<66>>, email |-> <<98, 64, 120, 32>>, company |-> <<32, 67, 111>>,
       phone |-> <<53, 53, 53>>, address |-> <<49, 32, 83, 116, 32>>],
      [name |-> Space, email |-> <<97, 64, 120>>, company |-> Undefined,
       phone |-> Undefined, address |-> Undefined],
      [name |-> <<65>>, email |-> Blank, company |-> Undefined,
       phone |-> Undefined, address |-> Undefined] }

\* the keys of clientService.validate(input).errors
validateClient(input) ==
    (IF input.name = Blank \/ Trim(input.name) = Blank THEN {"name"} ELSE {})
    \cup
    (IF input.email = Blank \/ Trim(input.email) = Blank THEN {"email"} ELSE {})

\* field?.trim()
OptTrim(field) == IF field = Undefined THEN Undefined ELSE Trim(field)

\* the newClient object of clientService.create()
NewClient(input, id, today) ==
    [id |-> id, name |-> Trim(input.name), email |-> Trim(input.email),
     company |-> OptTrim(input.company), phone |-> OptTrim(input.phone),
     address |-> OptTrim(input.address), createdAt |-> today]

\* the updatedClient object stamped with the day of the update
UpdatedClientRestamped(existingClient, input) ==
    [id |-> existingClient.id, name |-> Trim(input.name), email |-> Trim(input.email),
     company |-> OptTrim(input.company), phone |-> OptTrim(input.phone),
     address |-> OptTrim(input.address), createdAt |-> getCurrentDate]

\* the updatedClient object of clientService.update()
UpdatedClient(existingClient, input) ==
    [id |-> existingClient.id, name |-> Trim(input.name), email |-> Trim(input.email),
     company |-> OptTrim(input.company), phone |-> OptTrim(input.phone),
     address |-> OptTrim(input.address), createdAt |-> existingClient.createdAt]

\* clientService.hasInvoices(clientId)
hasInvoices(clientId) ==
    \E i \in 1..Len(getInvoices) : getInvoices[i].clientId = clientId

\* the ids a caller names: those of the stored clients, and 'c0', which no client has
ClientIds == {lsClients[i].id : i \in 1..Len(lsClients)} \cup {ClientId(0)}

\* clientService.create(input)
ClientCreate(input) ==
    LET clients == getClients
        newClient == NewClient(input, ClientId(nextClientId), getCurrentDate)
    IN  IF validateClient(input) # {}
        THEN /\ last' = Thrown
             /\ UNCHANGED <<user, pureVars, requests, appVars, totalsVars, supabaseVars, clientVars, lsAvailable, lsInvoices,
                            lsCounter, now, nextId, issued>>
        ELSE /\ nextClientId <= MaxClients
             /\ lsClients' = StorageSet(lsClients, Append(clients, newClient))
             /\ nextClientId' = nextClientId + 1
             /\ last' = Call("clientCreate", "ok")
             /\ UNCHANGED <<user, pureVars, requests, appVars, totalsVars, supabaseVars, lsAvailable, lsInvoices, lsCounter,
                            now, nextId, issued>>

\* clientService.update(id, input)
ClientUpdate(id, input) ==
    LET clients == getClients
        index == FindIndex(clients, id)
    IN  IF validateClient(input) # {}
        THEN /\ last' = Thrown
             /\ UNCHANGED <<user, pureVars, requests, appVars, totalsVars, supabaseVars, clientVars, lsAvailable, lsInvoices,
                            lsCounter, now, nextId, issued>>
        ELSE IF index = 0
        THEN /\ last' = Thrown
             /\ UNCHANGED <<user, pureVars, requests, appVars, totalsVars, supabaseVars, clientVars, lsAvailable, lsInvoices,
                            lsCounter, now, nextId, issued>>
        ELSE /\ lsClients' = StorageSet(lsClients,
                                 [clients EXCEPT ![index] = UpdatedClient(clients[index], input)])
             /\ last' = Call("clientUpdate", "ok")
             /\ UNCHANGED <<user, pureVars, requests, appVars, totalsVars, supabaseVars, nextClientId, lsAvailable, lsInvoices,
                            lsCounter, now, nextId, issued>>

\* deleteClient refusing to delete a client that stored invoices name
DeleteClientBlocking(id) ==
    LET clients == getClients
        index == FindIndex(clients, id)
    IN  IF index = 0 \/ hasInvoices(id)
        THEN /\ last' = Thrown
             /\ UNCHANGED <<user, pureVars, requests, appVars, totalsVars, supabaseVars, clientVars, lsAvailable, lsInvoices,
                            lsCounter, now, nextId, issued>>
        ELSE /\ lsClients' = StorageSet(lsClients, Splice(clients, index))
             /\ last' = Call("clientDelete", "ok")
             /\ UNCHANGED <<user, pureVars, requests, appVars, totalsVars, supabaseVars, nextClientId, lsAvailable, lsInvoices,
                            lsCounter, now, nextId, issued>>

\* clientService.delete(id)
DeleteClient(id) ==
    LET clients == getClients
        index == FindIndex(clients, id)
    IN  IF index = 0
        THEN /\ last' = Thrown
             /\ UNCHANGED <<user, pureVars, requests, appVars, totalsVars, supabaseVars, clientVars, lsAvailable, lsInvoices,
                            lsCounter, now, nextId, issued>>
        ELSE /\ lsClients' = StorageSet(lsClients, Splice(clients, index))
             /\ last' = Call("clientDelete", "ok")
             /\ UNCHANGED <<user, pureVars, requests, appVars, totalsVars, supabaseVars, nextClientId, lsAvailable, lsInvoices,
                            lsCounter, now, nextId, issued>>

\* the invoice forms submitted beside the client calls: one for each client id
ClientsInvoiceInputs ==
    {input \in ValidInputs : input.status = "none"}

ClientsNext ==
    \/ \E input \in ClientInputs : ClientCreate(input)
    \/ \E id \in ClientIds, input \in ClientInputs : ClientUpdate(id, input)
    \/ \E id \in ClientIds : DeleteClient(id)
    \/ \E input \in ClientsInvoiceInputs : Create(input, getClients)
    \/ \E id \in Ids, input \in ClientsInvoiceInputs : Update(id, input, getClients)
    \/ \E id \in Ids : Duplicate(id, getClients)
    \/ Tick

SpecClients == Init /\ [][ClientsNext]_vars

----------------------------------------------------------------------------
(* C11 .. : the clients and the invoices that name them *)

\* C11: clientService.update(id, input) of a stored client with valid input
\* stores a client with the id and createdAt of the existing record and every
\* other field taken, trimmed, from the input; the other stored clients and
\* the number of clients are as before.
C11_ClientUpdateFrame ==
    [][\A id \in ClientIds, input \in ClientInputs :
          (/\ last' = Call("clientUpdate", "ok")
           /\ FindIndex(lsClients, id) # 0
           /\ validateClient(input) = {}
           /\ ClientUpdate(id, input)) =>
            LET index == FindIndex(lsClients, id)
                old == lsClients[index]
                new == lsClients'[index]
            IN  /\ Len(lsClients') = Len(lsClients)
                /\ new.id = id
                /\ new.createdAt = old.createdAt
                /\ new.name = Trim(input.name)
                /\ new.email = Trim(input.email)
                /\ new.company = (IF input.company = Undefined THEN Undefined
                                  ELSE Trim(input.company))
                /\ new.phone = (IF input.phone = Undefined THEN Undefined
                                ELSE Trim(input.phone))
                /\ new.address = (IF input.address = Undefined THEN Undefined
                                  ELSE Trim(input.address))
                /\ \A k \in 1..Len(lsClients) : k # index => lsClients'[k] = lsClients[k]]_vars

\* C11 witness: a client update has just succeeded with two clients stored,
\* both created on an earlier day
C11_Witness ==
    /\ last = Call("clientUpdate", "ok")
    /\ Len(lsClients) = 2
    /\ \A i \in 1..2 : lsClients[i].createdAt # getCurrentDate

\* C18: once clientService.update(id, input) has succeeded, every stored
\* invoice whose clientId is id carries the updated client as its snapshot,
\* and every other stored invoice has the snapshot it had.
C18_SnapshotFollowsClient ==
    [][\A id \in ClientIds, input \in ClientInputs :
          (/\ last' = Call("clientUpdate", "ok")
           /\ FindIndex(lsClients, id) # 0
           /\ validateClient(input) = {}
           /\ ClientUpdate(id, input)) =>
            /\ Len(lsInvoices') = Len(lsInvoices)
            /\ \A i \in 1..Len(lsInvoices) :
                  IF lsInvoices'[i].clientId = id
                  THEN lsInvoices'[i].client = lsClients'[FindIndex(lsClients, id)]
                  ELSE lsInvoices'[i].client = lsInvoices[i].client]_vars

\* C19: clientService.delete(id) succeeds whenever a client with that id is
\* stored, whether or not stored invoices name it; it removes that client and
\* no other, keeps the other clients in their order and leaves the stored
\* invoices as they were; for an id that is not stored it throws and changes
\* nothing.  hasInvoices(id) is true exactly when a stored invoice has that
\* clientId.
C19_ClientDelete ==
    /\ [](\A id \in ClientIds \cup {IdC1, IdC2} :
            hasInvoices(id) <=> \E i \in 1..Len(lsInvoices) : lsInvoices[i].clientId = id)
    /\ [][\A id \in ClientIds :
            DeleteClient(id) =>
                IF \E c \in 1..Len(lsClients) : lsClients[c].id = id
                THEN /\ last' = Call("clientDelete", "ok")
                     /\ lsClients' = SelectSeq(lsClients, LAMBDA c : c.id # id)
                     /\ Len(lsClients') = Len(lsClients) - 1
                     /\ lsInvoices' = lsInvoices
                ELSE /\ last' = Thrown
                     /\ lsClients' = lsClients
                     /\ lsInvoices' = lsInvoices]_vars

\* C19 witness: a client that a stored invoice names has just been deleted;
\* another client is still stored
C19_Witness ==
    /\ last = Call("clientDelete", "ok")
    /\ Len(lsClients) = 1
    /\ \E i \in 1..Len(lsInvoices) :
          /\ hasInvoices(lsInvoices[i].clientId)
          /\ FindIndex(lsClients, lsInvoices[i].clientId) = 0

----------------------------------------------------------------------------
(* calculateTotals on its own *)

\* nothing stored, no call made
LocalIdle ==
    /\ lsAvailable = TRUE
    /\ lsInvoices = <<>>
    /\ lsCounter = NoCounter
    /\ now = 0
    /\ nextId = 1
    /\ issued = <<>>
    /\ last = NoCall
    /\ ClientsIdle
    /\ user = "A"
    /\ PureIdle

\* rates in thousandths: 0.004, 0.044, 1.335 and 10
Rates == {4, 44, 1335, 10000}

\* whole percentages
TaxRates == {0, 10, 25}

TotalsItems == [description : {<<119>>}, quantity : 1..MaxQuantity, rate : Rates]

TotalsItemLists == UNION {[1..n -> TotalsItems] : n \in 0..MaxItems}

TotalsInit ==
    /\ calcItems \in TotalsItemLists
    /\ calcRate \in TaxRates
    /\ calcTotals = NoTotals
    /\ LocalIdle
    /\ SupabaseIdle

\* calculateTotals(calcItems, calcRate)
CalculateTotals ==
    /\ calcTotals = NoTotals
    /\ calcTotals' = calculateTotals(calcItems, calcRate)
    /\ UNCHANGED <<user, pureVars, requests, appVars, calcItems, calcRate, supabaseVars, clientVars,
                   lsAvailable, lsInvoices, lsCounter, now, nextId, issued, last>>

TotalsNext == CalculateTotals

SpecTotals == TotalsInit /\ [][TotalsNext]_vars

----------------------------------------------------------------------------
(* C7 *)

\* the unrounded sum of quantity * rate over the argument, and the unrounded tax on it
CalcSum == SumProducts(calcItems)

CalcTax == (CalcSum * calcRate) \div 100

Abs(x) == IF x < 0 THEN -x ELSE x

\* C7 (as the code computes it): calculateTotals returns subtotal = round2(S),
\* tax = round2(S * taxRate/100) and total = round2(S + S * taxRate/100), S being
\* the unrounded sum of quantity * rate; each is rounded on its own, so the
\* returned total is within one cent of returned subtotal + returned tax.
C7_TotalsRoundedIndependently ==
    calcTotals # NoTotals =>
        /\ calcTotals.subtotal = Round2(CalcSum)
        /\ calcTotals.tax = Round2(CalcTax)
        /\ calcTotals.total = Round2(CalcSum + CalcTax)
        /\ Abs(calcTotals.total - (calcTotals.subtotal + calcTotals.tax)) <= 1000

\* C7 witness: totals were computed from a sum with sub-cent digits, and the
\* returned total is not the returned subtotal plus the returned tax
C7_Witness ==
    /\ calcTotals # NoTotals
    /\ CalcSum % 1000 # 0
    /\ calcTotals.total # calcTotals.subtotal + calcTotals.tax

\* C7 (as stated): subtotal = round2(sum), tax = round2(subtotal * taxRate/100),
\* and the returned total equals round2(returned subtotal + returned tax).
C7_TotalIsSubtotalPlusTax ==
    calcTotals # NoTotals =>
        /\ calcTotals.subtotal = Round2(CalcSum)
        /\ calcTotals.tax = Round2(CalcTax)
        /\ calcTotals.total = Round2(calcTotals.subtotal + calcTotals.tax)

----------------------------------------------------------------------------
(* The Supabase-backed invoiceService, and the app-context handlers over it. *)
(* Each handler runs to completion before the next starts; a request to the  *)
(* database may come back with an error.  Rows of invoices carry the id of  *)
(* the user who inserted them; under SpecSupabase one user stays signed in.  *)
(* The ids the database gives line_items rows are left out.                  *)

\* the default of the Supabase calculateTotals' taxRate parameter
SbDefaultTaxRate == 0

\* the fields of InvoiceInput
AllFields == {"clientId", "issueDate", "dueDate", "notes", "status", "lineItems"}

\* what the editor's buildInvoiceInput hands over
SbInputs ==
    [clientId : {IdC1}, issueDate : IssueDates, dueDate : DueDates,
     lineItems : {<<ItemWork>>, <<ItemHalf, ItemWork>>}, notes : Notes,
     status : StatusInputs]

\* what a caller of the service itself may hand to create(): the forms of the
\* editor, a form that names no client, and one that names a client the
\* table clients does not hold
SbCreateInputs ==
    SbInputs
    \cup
    [clientId : {Blank, IdC2}, issueDate : IssueDates, dueDate : DueDates,
     lineItems : {<<ItemWork>>}, notes : Notes, status : {"none"}]

\* the ids in the table clients
DbClientIds == {dbClients[i].id : i \in 1..Len(dbClients)}

\* the foreign key invoices_client_id_fkey accepts a client_id that is null
\* (the service writes null for '') or the id of a row of clients
FkAccepts(clientId) == clientId = Blank \/ clientId \in DbClientIds

\* the fields of an input that are not undefined
Given(input) == IF input.status = "none" THEN AllFields \ {"status"} ELSE AllFields

\* { status }
StatusOnly(status) ==
    [clientId |-> Blank, issueDate |-> Blank, dueDate |-> Blank, lineItems |-> <<>>,
     notes |-> "none", status |-> status]

\* the requests of a call that come back with an error: none; the write of
\* the sequence; the write of the invoice row; the insert of the line items;
\* the delete of the old line items; the compensating delete of create (which
\* runs only after the insert of the line items has failed)
CreateFaults == {"none", "sequence", "invoice", "lineItems", "rollback"}
UpdateFaults == {"none", "invoice", "lineItems", "deleteItems", "deleteAndInsert"}
RowFaults == {"none", "invoice"}

InsertFails(fault) == fault \in {"lineItems", "rollback", "deleteAndInsert"}

DeleteFails(fault) == fault \in {"deleteItems", "deleteAndInsert"}

\* generateInvoiceNumber(): the last_number it writes and the string it returns
SbNextNumber == IF dbSequence[user] = 0 THEN 1 ELSE dbSequence[user] + 1

SbInvoiceNumber == <<73, 78, 86, 45>> \o PadStart(ToDigits(SbNextNumber), 4, 48)

\* lineItemsToInsert
ItemRows(items, invoiceId) ==
    [i \in 1..Len(items) |->
        [invoice_id |-> invoiceId, description |-> items[i].description,
         quantity |-> items[i].quantity, rate |-> items[i].rate,
         amount |-> Product(items[i])]]

\* the row create() inserts into invoices
InvoiceRow(input, id, invoiceNumber) ==
    LET totals == calculateTotals(input.lineItems, SbDefaultTaxRate)
    IN  [id |-> id, user_id |-> user, client_id |-> input.clientId,
         invoice_number |-> invoiceNumber,
         status |-> IF input.status = "none" THEN "draft" ELSE input.status,
         issue_date |-> input.issueDate, due_date |-> input.dueDate,
         subtotal |-> totals.subtotal, tax |-> totals.tax, total |-> totals.total,
         notes |-> input.notes]

\* the row after update()'s updateData is applied to it
UpdatedRow(row, input, given) ==
    LET totals == calculateTotals(input.lineItems, SbDefaultTaxRate)
        has(f) == f \in given
    IN  [id |-> row.id, user_id |-> row.user_id, invoice_number |-> row.invoice_number,
         client_id |-> IF has("clientId") THEN input.clientId ELSE row.client_id,
         issue_date |-> IF has("issueDate") THEN input.issueDate ELSE row.issue_date,
         due_date |-> IF has("dueDate") THEN input.dueDate ELSE row.due_date,
         notes |-> IF has("notes") THEN input.notes ELSE row.notes,
         status |-> IF has("status") THEN input.status ELSE row.status,
         subtotal |-> IF has("lineItems") THEN totals.subtotal ELSE row.subtotal,
         tax |-> IF has("lineItems") THEN totals.tax ELSE row.tax,
         total |-> IF has("lineItems") THEN totals.total ELSE row.total]

\* line_items without the rows of one invoice, and the rows of one invoice
RowsNotOf(id) == SelectSeq(dbLineItems, LAMBDA r : r.invoice_id # id)

RowsOf(id) == SelectSeq(dbLineItems, LAMBDA r : r.invoice_id = id)

DbIds == {dbInvoices[i].id : i \in 1..Len(dbInvoices)} \cup {0}

\* the place of the row a query .eq('id', id).eq('user_id', userId) selects,
\* 0 when it selects none
OwnIndex(id) ==
    LET index == FindIndex(dbInvoices, id)
    IN  IF index # 0 /\ dbInvoices[index].user_id = user THEN index ELSE 0

\* the body of create(input), which duplicate() runs too
SbInsert(op, input, fault) ==
    /\ IF fault = "sequence"
       THEN /\ last' = Thrown
            /\ UNCHANGED <<dbInvoices, dbLineItems, dbSequence, issued, nextId>>
       ELSE /\ Len(issued) < MaxCalls
            /\ dbSequence' = [dbSequence EXCEPT ![user] = SbNextNumber]
            /\ issued' = Append(issued, SbInvoiceNumber)
            /\ IF fault = "invoice" \/ ~ FkAccepts(input.clientId)
               THEN /\ last' = Thrown
                    /\ UNCHANGED <<dbInvoices, dbLineItems, nextId>>
               ELSE /\ Len(dbInvoices) < MaxInvoices
                    /\ nextId' = nextId + 1
                    /\ IF input.lineItems # <<>> /\ InsertFails(fault)
                       THEN \* the invoice row is inserted, then deleted again,
                            \* unless that delete fails too: its result is not read
                            /\ last' = Thrown
                            /\ dbInvoices' =
                                 IF fault = "rollback"
                                 THEN Append(dbInvoices, InvoiceRow(input, nextId, SbInvoiceNumber))
                                 ELSE dbInvoices
                            /\ UNCHANGED dbLineItems
                       ELSE /\ dbInvoices' =
                                 Append(dbInvoices, InvoiceRow(input, nextId, SbInvoiceNumber))
                            /\ dbLineItems' = dbLineItems \o ItemRows(input.lineItems, nextId)
                            /\ last' = Call(op, "ok")
    /\ UNCHANGED <<user, pureVars, requests, appVars, totalsVars, clientVars, lsAvailable, lsInvoices, lsCounter, now>>

\* invoiceService.create(input), as addInvoice calls it
SbCreate(input, fault) == SbInsert("create", input, fault)

\* invoiceService.update(id, input), as updateInvoice calls it
SbUpdate(id, input, given, fault) ==
    LET index == OwnIndex(id)
    IN  /\ IF \/ fault = "invoice"
              \/ index = 0
              \/ ("clientId" \in given /\ ~ FkAccepts(input.clientId))
           THEN /\ last' = Thrown
                /\ UNCHANGED <<dbInvoices, dbLineItems>>
           ELSE /\ dbInvoices' = [dbInvoices EXCEPT ![index] = UpdatedRow(@, input, given)]
                /\ IF "lineItems" \notin given
                   THEN /\ last' = Call("update", "ok")
                        /\ UNCHANGED dbLineItems
                   ELSE LET kept == IF DeleteFails(fault) THEN dbLineItems ELSE RowsNotOf(id)
                        IN  \* the result of the delete is not read
                            IF input.lineItems # <<>> /\ InsertFails(fault)
                            THEN /\ last' = Thrown
                                 /\ dbLineItems' = kept
                            ELSE /\ Len(SelectSeq(kept, LAMBDA r : r.invoice_id = id))
                                      + Len(input.lineItems) <= MaxRows
                                 /\ last' = Call("update", "ok")
                                 /\ dbLineItems' = kept \o ItemRows(input.lineItems, id)
        /\ UNCHANGED <<user, pureVars, requests, appVars, totalsVars, clientVars, dbSequence, lsAvailable, lsInvoices, lsCounter,
                       now, nextId, issued>>

\* markInvoiceAsSent(id) of the app context: invoiceService.update(id, { status: 'sent' })
MarkInvoiceAsSent(id, fault) == SbUpdate(id, StatusOnly("sent"), {"status"}, fault)

\* invoiceService.markAsPaid(id)
SbMarkAsPaid(id, fault) ==
    LET index == OwnIndex(id)
    IN  /\ IF fault = "invoice" \/ index = 0
           THEN /\ last' = Thrown
                /\ UNCHANGED dbInvoices
           ELSE /\ dbInvoices' = [dbInvoices EXCEPT ![index] = [@ EXCEPT !.status = "paid"]]
                /\ last' = Call("markAsPaid", "ok")
        /\ UNCHANGED <<user, pureVars, requests, appVars, totalsVars, clientVars, dbLineItems, dbSequence, lsAvailable, lsInvoices,
                       lsCounter, now, nextId, issued>>

\* invoiceService.delete(id): the line items go with the invoice (ON DELETE CASCADE)
SbDelete(id, fault) ==
    /\ IF fault = "invoice"
       THEN /\ last' = Thrown
            /\ UNCHANGED <<dbInvoices, dbLineItems>>
       ELSE /\ dbInvoices' = SelectSeq(dbInvoices, LAMBDA r : r.id # id \/ r.user_id # user)
            /\ dbLineItems' = IF OwnIndex(id) # 0 THEN RowsNotOf(id) ELSE dbLineItems
            /\ last' = Call("delete", "ok")
    /\ UNCHANGED <<user, pureVars, requests, appVars, totalsVars, clientVars, dbSequence, lsAvailable, lsInvoices, lsCounter,
                   now, nextId, issued>>

\* the input duplicate() hands to create(): due 30 days from now
DuplicateInput(original, rows) ==
    [clientId |-> original.client_id, issueDate |-> getCurrentDate,
     dueDate |-> IsoDate(DateOf(now + 30)),
     lineItems |-> [i \in 1..Len(rows) |->
                      [description |-> rows[i].description, quantity |-> rows[i].quantity,
                       rate |-> rows[i].rate]],
     notes |-> original.notes, status |-> "draft"]

\* invoiceService.duplicate(id)
SbDuplicate(id, fault) ==
    LET index == OwnIndex(id)
    IN  IF index = 0
        THEN /\ last' = Thrown
             /\ UNCHANGED <<user, pureVars, requests, appVars, totalsVars, supabaseVars, clientVars, lsAvailable, lsInvoices, lsCounter,
                            now, nextId, issued>>
        ELSE SbInsert("duplicate", DuplicateInput(dbInvoices[index], RowsOf(id)), fault)

SupabaseInit ==
    /\ LocalIdle
    /\ TotalsIdle
    /\ SupabaseIdle

SupabaseNext ==
    \/ \E input \in SbCreateInputs, fault \in CreateFaults : SbCreate(input, fault)
    \/ \E id \in DbIds, input \in SbInputs, fault \in UpdateFaults :
          SbUpdate(id, input, Given(input), fault)
    \/ \E id \in DbIds, fault \in RowFaults : MarkInvoiceAsSent(id, fault)
    \/ \E id \in DbIds, fault \in RowFaults : SbMarkAsPaid(id, fault)
    \/ \E id \in DbIds, fault \in RowFaults : SbDelete(id, fault)
    \/ \E id \in DbIds, fault \in CreateFaults : SbDuplicate(id, fault)
    \/ Tick

SpecSupabase == SupabaseInit /\ [][SupabaseNext]_vars

----------------------------------------------------------------------------
(* C8, C9 *)

\* C8: every invoice persisted by create or update has tax equal to 10% of its
\* subtotal, rounded to the cent, and total equal to subtotal plus that tax.
C8_TaxAtDefaultRate ==
    /\ \A i \in 1..Len(dbInvoices) :
          /\ dbInvoices[i].tax = Round2((dbInvoices[i].subtotal * 10) \div 100)
          /\ dbInvoices[i].total = dbInvoices[i].subtotal + dbInvoices[i].tax
    /\ \A i \in 1..Len(lsInvoices) :
          /\ lsInvoices[i].tax = Round2((lsInvoices[i].subtotal * 10) \div 100)
          /\ lsInvoices[i].total = lsInvoices[i].subtotal + lsInvoices[i].tax

\* C9: every line item of every persisted invoice has
\* amount = round2(quantity * rate).
C9_AmountIsRoundedProduct ==
    /\ \A i \in 1..Len(dbLineItems) :
          dbLineItems[i].amount = Round2(dbLineItems[i].quantity * dbLineItems[i].rate * 100)
    /\ \A i \in 1..Len(lsInvoices) : \A k \in 1..Len(lsInvoices[i].lineItems) :
          LET item == lsInvoices[i].lineItems[k]
          IN  item.amount = Round2(item.quantity * item.rate * 100)

----------------------------------------------------------------------------
(* C12, C13: duplication, in both services *)

\* C12: duplicate(id, clients) of a stored invoice whose client is in the
\* supplied collection appends exactly one invoice: its id is that of no
\* stored invoice, its invoiceNumber differs from the original's, its status
\* is draft whatever the original's, its clientId and its number of line items
\* are the original's, and its issueDate is today; the stored invoices, the
\* original among them, are as before.  The same for duplicate(id) of the
\* Supabase-backed service.
C12_DuplicateAppendsDraft ==
    [][/\ \A id \in Ids, clients \in ClientLists :
            (/\ last' = Call("duplicate", "ok")
             /\ FindIndex(lsInvoices, id) # 0
             /\ Duplicate(id, clients)) =>
              LET original == lsInvoices[FindIndex(lsInvoices, id)]
                  new == lsInvoices'[Len(lsInvoices')]
              IN  /\ Len(lsInvoices') = Len(lsInvoices) + 1
                  /\ \A k \in 1..Len(lsInvoices) :
                        lsInvoices'[k] = lsInvoices[k] /\ new.id # lsInvoices[k].id
                  /\ new.invoiceNumber # original.invoiceNumber
                  /\ new.status = "draft"
                  /\ new.clientId = original.clientId
                  /\ Len(new.lineItems) = Len(original.lineItems)
                  /\ new.issueDate = getCurrentDate
       /\ \A id \in DbIds :
            (/\ last' = Call("duplicate", "ok")
             /\ FindIndex(dbInvoices, id) # 0
             /\ SbDuplicate(id, "none")) =>
              LET original == dbInvoices[FindIndex(dbInvoices, id)]
                  new == dbInvoices'[Len(dbInvoices')]
              IN  /\ Len(dbInvoices') = Len(dbInvoices) + 1
                  /\ \A k \in 1..Len(dbInvoices) :
                        dbInvoices'[k] = dbInvoices[k] /\ new.id # dbInvoices[k].id
                  /\ new.invoice_number # original.invoice_number
                  /\ new.status = "draft"
                  /\ new.client_id = original.client_id
                  /\ Len(SelectSeq(dbLineItems', LAMBDA r : r.invoice_id = new.id))
                        = Len(RowsOf(id))
                  /\ RowsOf(id) = SelectSeq(dbLineItems', LAMBDA r : r.invoice_id = id)
                  /\ new.issue_date = getCurrentDate]_vars

\* C12 witness: a paid invoice issued on an earlier day has just been
\* duplicated, and the copy is a draft issued today
C12_Witness ==
    /\ last = Call("duplicate", "ok")
    /\ Len(lsInvoices) = 2
    /\ lsInvoices[1].status = "paid"
    /\ lsInvoices[2].status = "draft"
    /\ lsInvoices[2].issueDate = getCurrentDate
    /\ lsInvoices[1].issueDate # getCurrentDate

\* C13: a duplicated invoice carries the original's dueDate, subtotal, tax,
\* total and notes, and each copied line item has the description, quantity,
\* rate and amount of its original under an id of its own; in the
\* localStorage-backed service and in the Supabase-backed one.
C13_DuplicateCarriesOver ==
    [][/\ \A id \in Ids, clients \in ClientLists :
            (/\ last' = Call("duplicate", "ok")
             /\ FindIndex(lsInvoices, id) # 0
             /\ Duplicate(id, clients)) =>
              LET original == lsInvoices[FindIndex(lsInvoices, id)]
                  new == lsInvoices'[Len(lsInvoices')]
              IN  /\ new.dueDate = original.dueDate
                  /\ new.subtotal = original.subtotal
                  /\ new.tax = original.tax
                  /\ new.total = original.total
                  /\ new.notes = original.notes
                  /\ Len(new.lineItems) = Len(original.lineItems)
                  /\ \A k \in 1..Len(original.lineItems) :
                        /\ new.lineItems[k].description = original.lineItems[k].description
                        /\ new.lineItems[k].quantity = original.lineItems[k].quantity
                        /\ new.lineItems[k].rate = original.lineItems[k].rate
                        /\ new.lineItems[k].amount = original.lineItems[k].amount
                        /\ \A m \in 1..Len(original.lineItems) :
                              new.lineItems[k].id # original.lineItems[m].id
       /\ \A id \in DbIds :
            (/\ last' = Call("duplicate", "ok")
             /\ FindIndex(dbInvoices, id) # 0
             /\ SbDuplicate(id, "none")) =>
              LET original == dbInvoices[FindIndex(dbInvoices, id)]
                  new == dbInvoices'[Len(dbInvoices')]
                  rows == RowsOf(id)
                  copies == SelectSeq(dbLineItems', LAMBDA r : r.invoice_id = new.id)
              IN  /\ new.due_date = original.due_date
                  /\ new.subtotal = original.subtotal
                  /\ new.tax = original.tax
                  /\ new.total = original.total
                  /\ new.notes = original.notes
                  /\ Len(copies) = Len(rows)
                  /\ \A k \in 1..Len(rows) :
                        /\ copies[k].description = rows[k].description
                        /\ copies[k].quantity = rows[k].quantity
                        /\ copies[k].rate = rows[k].rate
                        /\ copies[k].amount = rows[k].amount]_vars

----------------------------------------------------------------------------
(* C14, C15: requests that fail in the Supabase-backed service *)

\* C14: when the Supabase-backed update(id, input) ends in an error, whichever
\* of its requests failed (the update of the invoice row, the delete of the
\* old line items, the insert of the new ones), the persisted invoice rows and
\* line items are exactly what they were before the call.
C14_FailedUpdateLeavesState ==
    [][\A id \in DbIds, input \in SbInputs, fault \in UpdateFaults :
          (/\ last' = Thrown
           /\ SbUpdate(id, input, Given(input), fault)) =>
            /\ dbInvoices' = dbInvoices
            /\ dbLineItems' = dbLineItems]_vars

\* C15: when the Supabase-backed create has inserted the invoice row and the
\* insert of the line items fails, the call ends in an error and the row it
\* inserted is not persisted afterwards: the table holds the rows it held.
C15_FailedCreateRollsBack ==
    [][\A input \in SbCreateInputs, fault \in CreateFaults :
          (/\ InsertFails(fault)
           /\ input.lineItems # <<>>
           /\ SbCreate(input, fault)) =>
            /\ last' = Thrown
            /\ dbInvoices' = dbInvoices
            /\ dbLineItems' = dbLineItems]_vars

----------------------------------------------------------------------------
(* C17: the client an invoice names, at the time the invoice is written *)

\* the stored client with the id an invoice names, and the invoice's snapshot of it
NamesStoredClient(invoice, clients) ==
    \E c \in 1..Len(clients) :
        clients[c].id = invoice.clientId /\ invoice.client = clients[c]

\* C17: every invoice create or update persists names, by its clientId, a
\* client that is in the tenant's client collection when the invoice is
\* written, and embeds that client as its snapshot; a create or update that
\* names a client the collection does not hold persists nothing.  For the
\* localStorage-backed service the collection is the stored one, handed over
\* by the caller; for the Supabase-backed service it is the table clients.
C17_ClientExistsAtWrite ==
    /\ [](\A i \in 1..Len(dbInvoices) : dbInvoices[i].client_id \in DbClientIds)
    /\ [][/\ \A input \in SbCreateInputs, fault \in CreateFaults :
               (input.clientId \notin DbClientIds /\ SbCreate(input, fault)) =>
                   UNCHANGED <<dbInvoices, dbLineItems>>
          /\ \A input \in ClientsInvoiceInputs :
               (last' = Call("create", "ok") /\ Create(input, getClients)) =>
                   NamesStoredClient(lsInvoices'[Len(lsInvoices')], lsClients)
          /\ \A id \in Ids, input \in ClientsInvoiceInputs :
               (/\ last' = Call("update", "ok")
                /\ FindIndex(lsInvoices, id) # 0
                /\ Update(id, input, getClients)) =>
                   NamesStoredClient(lsInvoices'[FindIndex(lsInvoices, id)], lsClients)
          /\ \A id \in Ids, input \in ClientsInvoiceInputs :
               (/\ FindClient(getClients, input.clientId) = 0
                /\ (Create(input, getClients) \/ Update(id, input, getClients))) =>
                   UNCHANGED <<lsInvoices, lsCounter>>]_vars

----------------------------------------------------------------------------
(* C27 *)

\* C27: the sequence counter advances only for invoices that end up
\* persisted: a create or duplicate call that moves the stored sequence
\* leaves a new invoice stored that carries the number of that sequence, so
\* failed calls cause no gaps in the numbers of the persisted invoices.
C27_CounterCountsPersisted ==
    [][/\ dbSequence' # dbSequence =>
             \E i \in 1..Len(dbInvoices') :
                /\ dbInvoices'[i].id \notin DbIds
                /\ dbInvoices'[i].invoice_number = SbInvoiceNumber
       /\ (/\ lsCounter' # lsCounter
           /\ \/ \E input \in InvoiceInputs, clients \in ClientLists : Create(input, clients)
              \/ \E id \in Ids, clients \in ClientLists : Duplicate(id, clients)) =>
             \E i \in 1..Len(lsInvoices') :
                /\ lsInvoices'[i].id \notin Ids
                /\ lsInvoices'[i].invoiceNumber = GenerateNumber]_vars

----------------------------------------------------------------------------
(* Two users.  A user signs in (signIn of the auth context) and the calls    *)
(* that follow are made as that user: the Supabase-backed service reads the  *)
(* user's id with getCurrentUserId() and puts it in every query on invoices  *)
(* and invoice_sequences; the localStorage-backed services take no user and  *)
(* read and write the same three keys whoever calls them.                    *)

\* signIn(email, password) of another user
SignIn(u) ==
    /\ u # user
    /\ user' = u
    /\ UNCHANGED <<pureVars, requests, appVars, totalsVars, supabaseVars, clientVars, lsAvailable,
                   lsInvoices, lsCounter, now, nextId, issued, last>>

\* the forms a user hands to the Supabase-backed create() and update()
TenantInputs == {input \in SbInputs : input.status = "none"}

\* the form a user hands to the localStorage-backed clientService.create()
TenantClientInputs == {input \in ClientInputs : input.phone # Undefined}

\* the rows of invoices with one user's id
InvoicesOf(u) == SelectSeq(dbInvoices, LAMBDA r : r.user_id = u)

\* the rows of line_items of one user's invoices
LineItemsOf(u) ==
    SelectSeq(dbLineItems,
              LAMBDA r : \E i \in 1..Len(dbInvoices) :
                            dbInvoices[i].id = r.invoice_id /\ dbInvoices[i].user_id = u)

TenantsNext ==
    \/ \E u \in Users : SignIn(u)
    \/ \E input \in TenantInputs, fault \in CreateFaults : SbCreate(input, fault)
    \/ \E id \in DbIds, input \in TenantInputs, fault \in UpdateFaults :
          SbUpdate(id, input, Given(input), fault)
    \/ \E id \in DbIds, fault \in RowFaults : MarkInvoiceAsSent(id, fault)
    \/ \E id \in DbIds, fault \in RowFaults : SbMarkAsPaid(id, fault)
    \/ \E id \in DbIds, fault \in RowFaults : SbDelete(id, fault)
    \/ \E id \in DbIds, fault \in CreateFaults : SbDuplicate(id, fault)
    \/ Generate
    \/ \E input \in TenantClientInputs : ClientCreate(input)

SpecTenants == SupabaseInit /\ [][TenantsNext]_vars

\* a step leaves what the database holds for user u as it was
DbUntouched(u) ==
    /\ InvoicesOf(u)' = InvoicesOf(u)
    /\ LineItemsOf(u)' = LineItemsOf(u)
    /\ dbSequence'[u] = dbSequence[u]

\* a step leaves what localStorage holds as it was: the keys carry no user,
\* so what is persisted there for a user is the whole of each key
LsUntouched == UNCHANGED <<lsInvoices, lsCounter, lsClients>>

\* the part of C20 on the Supabase-backed service: a call made as one user
\* leaves the invoices, line items and sequence of every other user unchanged
SupabasePartition == [][\A u \in Users \ {user} : DbUntouched(u)]_vars

\* a call made as B has named an invoice of A and was refused
SupabasePartition_Witness ==
    /\ user = "B"
    /\ last = Thrown
    /\ Len(InvoicesOf("A")) = 1
    /\ Len(InvoicesOf("B")) = 1

\* C20: tenant isolation: for two distinct users A and B, no client, invoice
\* or invoice-number operation performed as A changes the clients, invoices,
\* line items or sequence counter persisted for B.
C20_TenantIsolation ==
    [][\A u \in Users \ {user} : DbUntouched(u) /\ LsUntouched]_vars

----------------------------------------------------------------------------
(* C21: validate as a function of its argument *)

\* what a caller may hand over as clientId: '', ' ', '  ', 'c1', ' c '
ValidateClientIds == {Blank, Space, <<32, 32>>, IdC1, <<32, 99, 32>>}

\* line items with a description that is '', ' ', 'w' or ' w', or with none
ValidateItems ==
    [description : {Blank, Space, <<119>>, <<32, 119>>}, quantity : {1}, rate : {1005}]
    \cup [quantity : {1}, rate : {1005}]

ValidateItemLists == UNION {[1..n -> ValidateItems] : n \in 0..MaxItems}

\* the arguments of validate: every field given, or clientId, lineItems or both left out
ValidateInputs ==
    [clientId : ValidateClientIds, lineItems : ValidateItemLists]
    \cup [clientId : ValidateClientIds]
    \cup [lineItems : ValidateItemLists]
    \cup {[notes |-> "thanks"]}

ValidateInit ==
    /\ fnArgs \in ValidateInputs
    /\ fnResult = NoResult
    /\ requests = [r \in Requests |-> NoRequest]
    /\ lsAvailable = TRUE
    /\ lsInvoices = <<>>
    /\ lsCounter = NoCounter
    /\ now = 0
    /\ nextId = 1
    /\ issued = <<>>
    /\ last = NoCall
    /\ user = "A"
    /\ ClientsIdle
    /\ TotalsIdle
    /\ SupabaseIdle

\* invoiceService.validate(fnArgs)
Validate ==
    /\ fnResult = NoResult
    /\ fnResult' = ValidationResult(fnArgs)
    /\ UNCHANGED <<user, fnArgs, requests, appVars, totalsVars, supabaseVars, clientVars, lsAvailable, lsInvoices,
                   lsCounter, now, nextId, issued, last>>

ValidateNext == Validate

SpecValidate == ValidateInit /\ [][ValidateNext]_vars

\* a string of spaces only
IsBlank(str) == \A i \in 1..Len(str) : str[i] = 32

\* C21: validate(input) returns (it does not throw) a result with valid = true
\* exactly when errors is empty; errors has the key clientId exactly when
\* clientId is missing or blank after trimming, and the key lineItems exactly
\* when lineItems is missing or empty or no line item has a description that
\* is not blank.
C21_Validate ==
    fnResult # NoResult =>
        /\ DOMAIN fnResult = {"valid", "errors"}
        /\ fnResult.valid = (fnResult.errors = {})
        /\ fnResult.errors \subseteq {"clientId", "lineItems"}
        /\ "clientId" \in fnResult.errors <=>
              ("clientId" \notin DOMAIN fnArgs \/ IsBlank(fnArgs.clientId))
        /\ "lineItems" \in fnResult.errors <=>
              \/ "lineItems" \notin DOMAIN fnArgs
              \/ \A i \in 1..Len(fnArgs.lineItems) :
                    \/ "description" \notin DOMAIN fnArgs.lineItems[i]
                    \/ IsBlank(fnArgs.lineItems[i].description)

\* a form with a client id of spaces and a line item described ' w' after one
\* described ' ' has been validated: the client is missing, the line items are not
C21_Witness ==
    /\ fnResult # NoResult
    /\ "clientId" \in DOMAIN fnArgs
    /\ fnArgs.clientId = <<32, 32>>
    /\ "lineItems" \in DOMAIN fnArgs
    /\ Len(fnArgs.lineItems) = 2
    /\ "description" \in DOMAIN fnArgs.lineItems[1]
    /\ fnArgs.lineItems[1].description = Space
    /\ "description" \in DOMAIN fnArgs.lineItems[2]
    /\ fnArgs.lineItems[2].description = <<32, 119>>
    /\ fnResult.errors = {"clientId"}
    /\ ~ fnResult.valid

----------------------------------------------------------------------------
(* C22: metricsService.calculate as a function of its arguments *)

\* the Metrics object before the loop, with the counters at 0
ZeroMetrics ==
    [totalRevenue |-> 0, pendingAmount |-> 0, overdueAmount |-> 0, totalClients |-> 0,
     paidInvoices |-> 0, pendingInvoices |-> 0, overdueInvoices |-> 0, draftInvoices |-> 0]

\* one turn of the loop: the switch on invoice.status
MetricsStep(acc, invoice) ==
    CASE invoice.status = "paid" ->
           [acc EXCEPT !.totalRevenue = @ + invoice.total, !.paidInvoices = @ + 1]
      [] invoice.status = "sent" ->
           [acc EXCEPT !.pendingAmount = @ + invoice.total, !.pendingInvoices = @ + 1]
      [] invoice.status = "overdue" ->
           [acc EXCEPT !.overdueAmount = @ + invoice.total, !.overdueInvoices = @ + 1]
      [] invoice.status = "draft" ->
           [acc EXCEPT !.draftInvoices = @ + 1]
      [] OTHER -> acc

RECURSIVE MetricsLoop(_, _)
\* for (const invoice of invoices) { ... }
MetricsLoop(acc, invoices) ==
    IF invoices = <<>> THEN acc
    ELSE MetricsLoop(MetricsStep(acc, Head(invoices)), Tail(invoices))

\* calculate with each invoice's total rounded before it is added
calculateRoundingEach(invoices, clients) ==
    LET rounded == [i \in 1..Len(invoices) |->
                       [invoices[i] EXCEPT !.total = Round2(@)]]
        acc == MetricsLoop(ZeroMetrics, rounded)
    IN  [acc EXCEPT !.totalClients = Len(clients)]

\* metricsService.calculate(invoices, clients)
calculate(invoices, clients) ==
    LET acc == MetricsLoop(ZeroMetrics, invoices)
    IN  [acc EXCEPT !.totalRevenue = Round2(@), !.pendingAmount = Round2(@),
                    !.overdueAmount = Round2(@), !.totalClients = Len(clients)]

\* totals an Invoice may carry, in 1/100000 units: 0.004, 0.005, 110
MetricsTotals == {400, 500, 11000000}

\* the fields of an Invoice that calculate reads
MetricsInvoices == [status : Statuses, total : MetricsTotals]

MetricsInvoiceLists == UNION {[1..n -> MetricsInvoices] : n \in 0..MaxInvoices}

MetricsClientLists == {<<>>, <<Client1>>, <<Client1, Client2>>}

MetricsInit ==
    /\ fnArgs \in [invoices : MetricsInvoiceLists, clients : MetricsClientLists]
    /\ fnResult = NoResult
    /\ requests = [r \in Requests |-> NoRequest]
    /\ lsAvailable = TRUE
    /\ lsInvoices = <<>>
    /\ lsCounter = NoCounter
    /\ now = 0
    /\ nextId = 1
    /\ issued = <<>>
    /\ last = NoCall
    /\ user = "A"
    /\ ClientsIdle
    /\ TotalsIdle
    /\ SupabaseIdle

\* metricsService.calculate(fnArgs.invoices, fnArgs.clients): the arguments
\* are read only
Calculate ==
    /\ fnResult = NoResult
    /\ fnResult' = calculate(fnArgs.invoices, fnArgs.clients)
    /\ UNCHANGED <<user, fnArgs, requests, appVars, totalsVars, supabaseVars, clientVars, lsAvailable, lsInvoices,
                   lsCounter, now, nextId, issued, last>>

MetricsNext == Calculate

SpecMetrics == MetricsInit /\ [][MetricsNext]_vars

\* the places of the invoices with one status
WithStatus(invoices, status) == {i \in 1..Len(invoices) : invoices[i].status = status}

RECURSIVE SumTotals(_, _)
\* the sum of total over a set of places
SumTotals(invoices, places) ==
    IF places = {} THEN 0
    ELSE LET i == CHOOSE j \in places : TRUE
         IN  invoices[i].total + SumTotals(invoices, places \ {i})

\* the counts per status, totalClients, and the arguments left as they were
MetricsCounts ==
    /\ fnResult.paidInvoices = Cardinality(WithStatus(fnArgs.invoices, "paid"))
    /\ fnResult.pendingInvoices = Cardinality(WithStatus(fnArgs.invoices, "sent"))
    /\ fnResult.overdueInvoices = Cardinality(WithStatus(fnArgs.invoices, "overdue"))
    /\ fnResult.draftInvoices = Cardinality(WithStatus(fnArgs.invoices, "draft"))
    /\ fnResult.paidInvoices + fnResult.pendingInvoices + fnResult.overdueInvoices
         + fnResult.draftInvoices = Len(fnArgs.invoices)
    /\ fnResult.totalClients = Len(fnArgs.clients)

----------------------------------------------------------------------------
(* C23: getRecentInvoices and getRecentClients as functions of their arguments *)

\* a.localeCompare(b) on ISO dates of one format: negative, 0 or positive as
\* a comes before, with or after b in the order of the code units
localeCompare(a, b) == IF a = b THEN 0 ELSE IF StrLess(a, b) THEN -1 ELSE 1

\* the comparator with its arguments the other way round: oldest first
compareOldestFirst(a, b) == localeCompare(a.createdAt, b.createdAt)

\* the comparator (a, b) => b.createdAt.localeCompare(a.createdAt)
compareRecent(a, b) == localeCompare(b.createdAt, a.createdAt)

RECURSIVE InsertSorted(_, _)
\* x put into a sorted list after every element that does not sort after it
InsertSorted(x, sorted) ==
    IF sorted = <<>> THEN <<x>>
    ELSE IF compareRecent(Head(sorted), x) <= 0
         THEN <<Head(sorted)>> \o InsertSorted(x, Tail(sorted))
         ELSE <<x>> \o sorted

RECURSIVE SortRecent(_)
\* Array.prototype.sort with the comparator: a stable sort
SortRecent(xs) ==
    IF xs = <<>> THEN <<>>
    ELSE InsertSorted(xs[Len(xs)], SortRecent(SubSeq(xs, 1, Len(xs) - 1)))

\* .slice(0, limit), limit >= 0
SliceTo(xs, limit) == SubSeq(xs, 1, Min(limit, Len(xs)))

\* getRecentInvoices(invoices, limit): [...invoices].sort(...).slice(0, limit)
getRecentInvoices(invoices, limit) == SliceTo(SortRecent(invoices), limit)

\* getRecentClients(clients, limit): [...clients].sort(...).slice(0, limit)
getRecentClients(clients, limit) == SliceTo(SortRecent(clients), limit)

\* createdAt of the elements: 2026-12-31, 2027-01-01, 2027-01-02
RecentDates == {IsoDate(DateOf(n)) : n \in 0..2}

\* the lists handed over: the element at place i has id i
RecentLists ==
    UNION {[1..n -> RecentDates] : n \in 0..MaxRecent}

RecentElements(dates) == [i \in 1..Len(dates) |-> [id |-> i, createdAt |-> dates[i]]]

\* the limits handed over; 5 is the default of getRecentInvoices
RecentLimits == {0, 1, 2, 5}

RecentInit ==
    /\ fnArgs \in {[xs |-> RecentElements(dates), limit |-> limit] :
                      dates \in RecentLists, limit \in RecentLimits}
    /\ fnResult = NoResult
    /\ requests = [r \in Requests |-> NoRequest]
    /\ lsAvailable = TRUE
    /\ lsInvoices = <<>>
    /\ lsCounter = NoCounter
    /\ now = 0
    /\ nextId = 1
    /\ issued = <<>>
    /\ last = NoCall
    /\ user = "A"
    /\ ClientsIdle
    /\ TotalsIdle
    /\ SupabaseIdle

\* recentItemsService.getRecentInvoices(fnArgs.xs, fnArgs.limit): the sort
\* runs on a copy, the argument is read only
GetRecentInvoices ==
    /\ fnResult = NoResult
    /\ fnResult' = [op |-> "getRecentInvoices",
                    value |-> getRecentInvoices(fnArgs.xs, fnArgs.limit)]
    /\ UNCHANGED <<user, fnArgs, requests, appVars, totalsVars, supabaseVars, clientVars, lsAvailable, lsInvoices,
                   lsCounter, now, nextId, issued, last>>

\* recentItemsService.getRecentClients(fnArgs.xs, fnArgs.limit)
GetRecentClients ==
    /\ fnResult = NoResult
    /\ fnResult' = [op |-> "getRecentClients",
                    value |-> getRecentClients(fnArgs.xs, fnArgs.limit)]
    /\ UNCHANGED <<user, fnArgs, requests, appVars, totalsVars, supabaseVars, clientVars, lsAvailable, lsInvoices,
                   lsCounter, now, nextId, issued, last>>

RecentNext == GetRecentInvoices \/ GetRecentClients

SpecRecent == RecentInit /\ [][RecentNext]_vars

\* a is not after b
NotAfter(a, b) == a = b \/ StrLess(a, b)

\* C23: getRecentInvoices(xs, limit) and getRecentClients(xs, limit) do not
\* modify xs and return min(limit, |xs|) elements of xs ordered by createdAt
\* descending, such that every element left out has createdAt less than or
\* equal to every element returned.
C23_RecentItems ==
    /\ [](fnResult # NoResult =>
            LET xs == fnArgs.xs
                ys == fnResult.value
                returned == {ys[k].id : k \in 1..Len(ys)}
            IN  /\ Len(ys) = Min(fnArgs.limit, Len(xs))
                /\ Cardinality(returned) = Len(ys)
                /\ \A k \in 1..Len(ys) : ys[k].id \in 1..Len(xs) /\ ys[k] = xs[ys[k].id]
                /\ \A k \in 1..(Len(ys) - 1) : NotAfter(ys[k + 1].createdAt, ys[k].createdAt)
                /\ \A i \in 1..Len(xs) :
                      i \notin returned =>
                         \A k \in 1..Len(ys) : NotAfter(xs[i].createdAt, ys[k].createdAt))
    /\ [][fnArgs' = fnArgs]_vars

\* of three elements created on 2026-12-31, 2027-01-02 and 2027-01-01, the two
\* most recent have been returned, the latest first
C23_Witness ==
    /\ fnResult # NoResult
    /\ fnResult.op = "getRecentInvoices"
    /\ fnArgs.limit = 2
    /\ Len(fnArgs.xs) = 3
    /\ fnArgs.xs[1].createdAt = IsoDate(DateOf(0))
    /\ fnArgs.xs[2].createdAt = IsoDate(DateOf(2))
    /\ fnArgs.xs[3].createdAt = IsoDate(DateOf(1))
    /\ Len(fnResult.value) = 2
    /\ fnResult.value[1].id = 2
    /\ fnResult.value[2].id = 3

----------------------------------------------------------------------------
(* C24: invoiceService.search and clientService.search as functions of their *)
(* arguments                                                                 *)

\* a string left as it is
toLowerCaseKept(str) == str

\* String.prototype.toLowerCase() on ASCII strings
toLowerCase(str) == [i \in 1..Len(str) |-> IF str[i] \in 65..90 THEN str[i] + 32 ELSE str[i]]

\* String.prototype.includes(part)
includes(str, part) ==
    \E start \in 1..(Len(str) - Len(part) + 1) :
        SubSeq(str, start, start + Len(part) - 1) = part

\* query.toLowerCase().trim()
lowerQuery(query) == Trim(toLowerCase(query))

\* !query || query.trim() === ''
emptyQuery(query) == query = <<>> \/ Trim(query) = <<>>

\* the predicate of invoiceService.search's filter
invoiceMatch(invoice, query) ==
    \/ includes(toLowerCase(invoice.invoiceNumber), lowerQuery(query))
    \/ includes(toLowerCase(invoice.client.name), lowerQuery(query))
    \/ IF invoice.client.company = Undefined THEN FALSE
       ELSE includes(toLowerCase(invoice.client.company), lowerQuery(query))

\* the predicate of clientService.search's filter
clientMatch(client, query) ==
    \/ includes(toLowerCase(client.name), lowerQuery(query))
    \/ includes(toLowerCase(client.email), lowerQuery(query))
    \/ IF client.company = Undefined THEN FALSE
       ELSE includes(toLowerCase(client.company), lowerQuery(query))

\* invoiceService.search(query, invoices)
searchInvoices(query, invoices) ==
    IF emptyQuery(query) THEN invoices
    ELSE SelectSeq(invoices, LAMBDA invoice : invoiceMatch(invoice, query))

\* clientService.search(query, clients)
searchClients(query, clients) ==
    IF emptyQuery(query) THEN clients
    ELSE SelectSeq(clients, LAMBDA client : clientMatch(client, query))

\* clients: 'Ab' <a@x>, no company; 'b' <B@y> of 'Co'; 'z' <z@z> of 'ab'
SearchClientPool ==
    { [name |-> <<65, 98>>, email |-> <<97, 64, 120>>, company |-> Undefined],
      [name |-> <<98>>, email |-> <<66, 64, 121>>, company |-> <<67, 111>>],
      [name |-> <<122>>, email |-> <<122, 64, 122>>, company |-> <<97, 98>>] }

\* invoices: the fields search reads, numbered INV-2026-001 and INV-2026-002
SearchInvoicePool ==
    [invoiceNumber : {FormatInvoiceNumber(2026, 1), FormatInvoiceNumber(2026, 2)},
     client : SearchClientPool]

\* queries: '', ' ', 'a', 'AB ', ' co', 'q', 'inv', '002'
SearchQueries ==
    {Blank, Space, <<97>>, <<65, 66, 32>>, <<32, 99, 111>>, <<113>>,
     <<105, 110, 118>>, <<48, 48, 50>>}

SearchInit ==
    /\ fnArgs \in
         [kind : {"clients"}, query : SearchQueries,
          xs : UNION {[1..n -> SearchClientPool] : n \in 0..MaxInvoices}]
         \cup
         [kind : {"invoices"}, query : SearchQueries,
          xs : UNION {[1..n -> SearchInvoicePool] : n \in 0..MaxInvoices}]
    /\ fnResult = NoResult
    /\ requests = [r \in Requests |-> NoRequest]
    /\ lsAvailable = TRUE
    /\ lsInvoices = <<>>
    /\ lsCounter = NoCounter
    /\ now = 0
    /\ nextId = 1
    /\ issued = <<>>
    /\ last = NoCall
    /\ user = "A"
    /\ ClientsIdle
    /\ TotalsIdle
    /\ SupabaseIdle

\* invoiceService.search(fnArgs.query, fnArgs.xs)
SearchInvoices ==
    /\ fnResult = NoResult
    /\ fnArgs.kind = "invoices"
    /\ fnResult' = [op |-> "search", value |-> searchInvoices(fnArgs.query, fnArgs.xs)]
    /\ UNCHANGED <<user, fnArgs, requests, appVars, totalsVars, supabaseVars, clientVars, lsAvailable, lsInvoices,
                   lsCounter, now, nextId, issued, last>>

\* clientService.search(fnArgs.query, fnArgs.xs)
SearchClients ==
    /\ fnResult = NoResult
    /\ fnArgs.kind = "clients"
    /\ fnResult' = [op |-> "search", value |-> searchClients(fnArgs.query, fnArgs.xs)]
    /\ UNCHANGED <<user, fnArgs, requests, appVars, totalsVars, supabaseVars, clientVars, lsAvailable, lsInvoices,
                   lsCounter, now, nextId, issued, last>>

SearchNext == SearchInvoices \/ SearchClients

SpecSearch == SearchInit /\ [][SearchNext]_vars

\* two letters that differ at most in case
SameLetter(a, b) ==
    \/ a = b
    \/ a \in 65..90 /\ b = a + 32
    \/ b \in 65..90 /\ a = b + 32

\* the part occurs in the field, case ignored
Occurs(field, part) ==
    \E offset \in 0..(Len(field) - Len(part)) :
        \A k \in 1..Len(part) : SameLetter(field[offset + k], part[k])

\* the query without the spaces around it: the places from its first to its
\* last character that is not a space
Core(query) ==
    LET solid == {i \in 1..Len(query) : query[i] # 32}
    IN  IF solid = {} THEN <<>>
        ELSE LET first == CHOOSE i \in solid : \A j \in solid : i <= j
                 final == CHOOSE i \in solid : \A j \in solid : j <= i
             IN  SubSeq(query, first, final)

\* the fields of an element that its search looks at
SearchedFields(kind, x) ==
    (IF kind = "invoices" THEN {x.invoiceNumber, x.client.name} ELSE {x.name, x.email})
    \cup
    (LET company == IF kind = "invoices" THEN x.client.company ELSE x.company
     IN  IF company = Undefined THEN {} ELSE {company})

\* the places of xs, the k-th smallest of a set of places
RECURSIVE Kth(_, _)
Kth(places, k) ==
    LET least == CHOOSE i \in places : \A j \in places : i <= j
    IN  IF k = 1 THEN least ELSE Kth(places \ {least}, k - 1)

\* C24: invoiceService.search and clientService.search return the collection
\* unchanged for an empty or whitespace-only query, and otherwise exactly the
\* elements in which the trimmed query occurs, case ignored, in one of the
\* searched fields, in their original order (none when no field matches); a
\* missing company never matches and the call does not throw.
C24_Search ==
    fnResult # NoResult =>
        LET xs == fnArgs.xs
            ys == fnResult.value
            part == Core(fnArgs.query)
            hits == {i \in 1..Len(xs) :
                        \E field \in SearchedFields(fnArgs.kind, xs[i]) : Occurs(field, part)}
        IN  IF part = <<>> THEN ys = xs
            ELSE /\ Len(ys) = Cardinality(hits)
                 /\ \A k \in 1..Len(ys) : ys[k] = xs[Kth(hits, k)]

\* the query ' co' on the clients 'b' of 'Co' and 'Ab' with no company has
\* returned the first only
C24_Witness ==
    /\ fnResult # NoResult
    /\ fnArgs.kind = "clients"
    /\ fnArgs.query = <<32, 99, 111>>
    /\ Len(fnArgs.xs) = 2
    /\ fnArgs.xs[1].company = <<67, 111>>
    /\ fnArgs.xs[2].company = Undefined
    /\ fnResult.value = <<fnArgs.xs[1]>>

----------------------------------------------------------------------------
(* Overlapping requests.  create() and duplicate() are async: between two    *)
(* awaits of one call the awaits of another call of the same user may run.   *)
(* A request goes through getById (duplicate only), the select of            *)
(* last_number, the insert or update of invoice_sequences, and the inserts   *)
(* of the invoice and its line items.  No request comes back with a network  *)
(* error here.  Whether the database rejects a second row of                 *)
(* invoice_sequences for a user, or a second invoice with a number, is not   *)
(* in the source: both outcomes are taken.                                   *)

\* the forms handed to the overlapping create()
OverlapInputs == {input \in SbInputs : input.status = "none"}

\* the ids of the stored invoices of the user
OwnIds == {dbInvoices[i].id : i \in {j \in 1..Len(dbInvoices) : dbInvoices[j].user_id = user}}

\* the frame of a step of a request
RequestFrame ==
    UNCHANGED <<user, pureVars, appVars, totalsVars, clientVars, lsAvailable, lsInvoices,
                lsCounter, now>>

\* create(input) is called: getCurrentUserId()
RequestCreate(r, input) ==
    /\ requests[r].pc = "idle"
    /\ requests' = [requests EXCEPT ![r] = [pc |-> "begun", op |-> "create", input |-> input]]
    /\ UNCHANGED <<supabaseVars, nextId, issued, last>>
    /\ RequestFrame

\* duplicate(id) is called: getById(id) has returned the original
RequestDuplicate(r, id) ==
    /\ requests[r].pc = "idle"
    /\ OwnIndex(id) # 0
    /\ requests' = [requests EXCEPT ![r] =
                      [pc |-> "begun", op |-> "duplicate",
                       input |-> DuplicateInput(dbInvoices[OwnIndex(id)], RowsOf(id))]]
    /\ UNCHANGED <<supabaseVars, nextId, issued, last>>
    /\ RequestFrame

\* generateInvoiceNumber(): from('invoice_sequences').select('last_number')
ReadSequence(r) ==
    /\ requests[r].pc = "begun"
    /\ requests' = [requests EXCEPT ![r] =
                      [pc |-> "read", op |-> @.op, input |-> @.input, seen |-> dbSequence[user]]]
    /\ UNCHANGED <<supabaseVars, nextId, issued, last>>
    /\ RequestFrame

\* the number a request forms from the last_number it has read
nextNumber(seen) == IF seen = 0 THEN 1 ELSE seen + 1

\* the request with its number
Numbered(request, number) ==
    [pc |-> "numbered", op |-> request.op, input |-> request.input,
     number |-> <<73, 78, 86, 45>> \o PadStart(ToDigits(number), 4, 48)]

\* the request ended by an error
Failed(request) == [pc |-> "done", op |-> request.op, outcome |-> "error"]

\* generateInvoiceNumber(): the insert of { user_id, last_number: 1 } when no
\* row was read, the update of last_number otherwise
WriteSequence(r) ==
    LET request == requests[r]
        number == nextNumber(request.seen)
    IN  /\ request.pc = "read"
        /\ Len(issued) < MaxCalls
        /\ \/ /\ request.seen = 0 => dbSequence[user] = 0
              /\ dbSequence' = [dbSequence EXCEPT ![user] = number]
              /\ requests' = [requests EXCEPT ![r] = Numbered(request, number)]
              /\ issued' = Append(issued, Numbered(request, number).number)
              /\ UNCHANGED last
           \/ \* a row has been inserted since the read: the insert is accepted
              \* as a second row saying 1 too
              /\ request.seen = 0
              /\ dbSequence[user] # 0
              /\ requests' = [requests EXCEPT ![r] = Numbered(request, number)]
              /\ issued' = Append(issued, Numbered(request, number).number)
              /\ UNCHANGED <<dbSequence, last>>
           \/ \* or it is rejected
              /\ request.seen = 0
              /\ dbSequence[user] # 0
              /\ requests' = [requests EXCEPT ![r] = Failed(request)]
              /\ last' = Thrown
              /\ UNCHANGED <<dbSequence, issued>>
        /\ UNCHANGED <<dbInvoices, dbLineItems, nextId>>
        /\ RequestFrame

\* some invoice of the user carries the number
NumberTaken(number) ==
    \E i \in 1..Len(dbInvoices) :
        dbInvoices[i].user_id = user /\ dbInvoices[i].invoice_number = number

\* create(): the inserts of the invoice and of its line items
InsertInvoice(r) ==
    LET request == requests[r]
    IN  /\ request.pc = "numbered"
        /\ \/ /\ Len(dbInvoices) < MaxInvoices
              /\ dbInvoices' = Append(dbInvoices, InvoiceRow(request.input, nextId, request.number))
              /\ dbLineItems' = dbLineItems \o ItemRows(request.input.lineItems, nextId)
              /\ nextId' = nextId + 1
              /\ requests' = [requests EXCEPT ![r] =
                                [pc |-> "done", op |-> request.op, outcome |-> "ok"]]
              /\ last' = Call(request.op, "ok")
           \/ \* the number is taken and the database rejects the row (23505)
              /\ NumberTaken(request.number)
              /\ requests' = [requests EXCEPT ![r] = Failed(request)]
              /\ last' = Thrown
              /\ UNCHANGED <<dbInvoices, dbLineItems, nextId>>
        /\ UNCHANGED <<dbSequence, issued>>
        /\ RequestFrame

\* the promise of a request is settled: the handler may be triggered again
Settle(r) ==
    /\ requests[r].pc = "done"
    /\ requests' = [requests EXCEPT ![r] = NoRequest]
    /\ UNCHANGED <<supabaseVars, nextId, issued, last>>
    /\ RequestFrame

OverlapNext ==
    \/ \E r \in Requests, input \in OverlapInputs : RequestCreate(r, input)
    \/ \E r \in Requests, id \in OwnIds : RequestDuplicate(r, id)
    \/ \E r \in Requests : ReadSequence(r)
    \/ \E r \in Requests : WriteSequence(r)
    \/ \E r \in Requests : InsertInvoice(r)
    \/ \E r \in Requests : Settle(r)

SpecOverlap == SupabaseInit /\ [][OverlapNext]_vars

\* C28: two overlapping create / duplicate requests of one user obtain
\* distinct invoice numbers from generateInvoiceNumber and both persist an
\* invoice, whatever the interleaving of the reads of last_number and its
\* updates.
C28_OverlappingNumbersDistinct ==
    /\ \A r, q \in Requests :
          (r # q /\ requests[r].pc = "numbered" /\ requests[q].pc = "numbered")
             => requests[r].number # requests[q].number
    /\ \A r \in Requests : requests[r].pc = "done" => requests[r].outcome = "ok"
    /\ \A i, j \in 1..Len(dbInvoices) :
          (i # j /\ dbInvoices[i].user_id = dbInvoices[j].user_id)
             => dbInvoices[i].invoice_number # dbInvoices[j].invoice_number

(***************************************************************************)
(* The app context.  loadData, addClient and deleteClient are async: each  *)
(* runs to its next await, and the other handlers and the auth listener    *)
(* run in between.  A client is its id; of the metrics, totalClients: the  *)
(* other fields are computed from the invoices, which no handler of this   *)
(* specification creates.                                                  *)
(***************************************************************************)

\* the value of user when nobody is signed in: null
SignedOut == "none"

\* defaultMetrics, with the lists empty: what loadData sets on an error
Cleared(state) ==
    [state EXCEPT !.clients = <<>>, !.invoices = <<>>, !.totalClients = 0,
                  !.isLoading = FALSE]

\* loadData without a user: the same, in a call that is over as it returns
ClearedForNoUser(state) == [Cleared(state) EXCEPT !.latest = 0]

RECURSIVE Reverse(_)
Reverse(s) == IF s = <<>> THEN <<>> ELSE Append(Reverse(Tail(s)), Head(s))

\* clientService.getAll for userId: the user's rows, the newest first
ClientsOf(userId) ==
    LET Own(row) == row.user_id = userId
        rows == SelectSeq(dbClients, Own)
    IN  Reverse([i \in 1..Len(rows) |-> rows[i].id])

\* the client count getMetrics reads for userId
ClientCount(userId) == Len(ClientsOf(userId))

\* the ids of the invoices invoiceService.getAll returns for userId, the newest first
InvoiceIdsOf(userId) ==
    LET Own(row) == row.user_id = userId
        rows == SelectSeq(dbInvoices, Own)
    IN  Reverse([i \in 1..Len(rows) |-> rows[i].id])

\* the client ids some part of the state holds
HeldClientIds ==
    DbClientIds
        \cup {app.clients[i] : i \in 1..Len(app.clients)}
        \cup UNION {{loads[l].clients[i] : i \in 1..Len(loads[l].clients)} :
                    l \in {m \in Loads : loads[m].pc = "haveLists"}}

\* the ids a caller may name: those of the clients of a run, and one more
AppClientIds == {ClientId(n) : n \in 1..(MaxClients + 1)}

\* the uuid the database gives a new client: one that nothing holds
FreshClientId ==
    CHOOSE id \in AppClientIds \ HeldClientIds :
        \A n \in 1..(MaxClients + 1) :
            ClientId(n) \in AppClientIds \ HeldClientIds => id[2] <= 48 + n

AppFrame ==
    UNCHANGED <<pureVars, requests, totalsVars, supabaseVars, clientVars, lsAvailable,
                lsInvoices, lsCounter, now, nextId, issued, last>>

\* loadData to its first await, with a user: isLoading is set and the three services are
\* called, each awaiting supabase.auth.getUser()
StartLoad(l) ==
    /\ loads[l].pc = "idle"
    /\ app' = [app EXCEPT !.isLoading = TRUE, !.latest = l]
    /\ loads' = [loads EXCEPT ![l] = [pc |-> "started"]]

\* the session restored at start-up: AuthProvider has set the user and the effect has
\* called loadData
AppInit ==
    /\ LocalIdle
    /\ TotalsIdle
    /\ DbIdle
    /\ app = [NoApp EXCEPT !.latest = 1]
    /\ loads = [l \in Loads |-> IF l = 1 THEN [pc |-> "started"] ELSE NoLoad]

\* onAuthStateChange with a session: the user is set, loadData changes and the effect calls it
AppSignIn(u, l) ==
    /\ user = SignedOut
    /\ user' = u
    /\ StartLoad(l)
    /\ UNCHANGED dbClients
    /\ AppFrame

\* onAuthStateChange without a session: the effect calls loadData, which clears the state
AppSignOut ==
    /\ user # SignedOut
    /\ user' = SignedOut
    /\ app' = ClearedForNoUser(app)
    /\ UNCHANGED <<dbClients, loads>>
    /\ AppFrame

\* refreshData: one more call of loadData
RefreshData(l) ==
    /\ IF user = SignedOut
       THEN app' = ClearedForNoUser(app) /\ UNCHANGED loads
       ELSE StartLoad(l)
    /\ UNCHANGED <<user, dbClients>>
    /\ AppFrame

\* the three getCurrentUserId of a load return: with a user the queries are sent for that
\* user id; with none they throw and the catch and finally blocks run
LoadAuthenticated(l) ==
    /\ loads[l].pc = "started"
    /\ IF user = SignedOut
       THEN /\ app' = Cleared(app)
            /\ loads' = [loads EXCEPT ![l] = NoLoad]
       ELSE /\ loads' = [loads EXCEPT ![l] = [pc |-> "authenticated", userId |-> user]]
            /\ UNCHANGED app
    /\ UNCHANGED <<user, dbClients>>
    /\ AppFrame

\* Promise.all resolves: the three setters, then finally
LoadResolved(state, clientsData, invoicesData, clientCount) ==
    [state EXCEPT !.clients = clientsData, !.invoices = invoicesData,
                  !.totalClients = clientCount, !.isLoading = FALSE]

\* the queries of clientService.getAll and invoiceService.getAll are answered; when the
\* metrics are there already, Promise.all resolves
LoadLists(l) ==
    /\ loads[l].pc \in {"authenticated", "haveMetrics"}
    /\ IF loads[l].pc = "authenticated"
       THEN /\ loads' = [loads EXCEPT ![l] =
                            [pc |-> "haveLists", userId |-> loads[l].userId,
                             clients |-> ClientsOf(loads[l].userId),
                             invoices |-> InvoiceIdsOf(loads[l].userId)]]
            /\ UNCHANGED app
       ELSE /\ app' = LoadResolved(app, ClientsOf(loads[l].userId),
                                   InvoiceIdsOf(loads[l].userId), loads[l].count)
            /\ loads' = [loads EXCEPT ![l] = NoLoad]
    /\ UNCHANGED <<user, dbClients>>
    /\ AppFrame

\* the count query of metricsService.getMetrics is answered; when the lists are there
\* already, Promise.all resolves
LoadMetrics(l) ==
    /\ loads[l].pc \in {"authenticated", "haveLists"}
    /\ IF loads[l].pc = "authenticated"
       THEN /\ loads' = [loads EXCEPT ![l] =
                            [pc |-> "haveMetrics", userId |-> loads[l].userId,
                             count |-> ClientCount(loads[l].userId)]]
            /\ UNCHANGED app
       ELSE /\ app' = LoadResolved(app, loads[l].clients, loads[l].invoices,
                                   ClientCount(loads[l].userId))
            /\ loads' = [loads EXCEPT ![l] = NoLoad]
    /\ UNCHANGED <<user, dbClients>>
    /\ AppFrame

\* addClient: clientService.create inserts the row, then the client is put first in the
\* list and totalClients is raised; without a user create throws and nothing changes
addClient ==
    /\ Len(dbClients) < MaxClients
    /\ AppClientIds \ HeldClientIds # {}
    /\ IF user = SignedOut
       THEN UNCHANGED <<dbClients, app>>
       ELSE /\ dbClients' = Append(dbClients, [id |-> FreshClientId, user_id |-> user])
            /\ app' = [app EXCEPT !.clients = <<FreshClientId>> \o app.clients,
                                  !.totalClients = app.totalClients + 1]
    /\ UNCHANGED <<user, loads>>
    /\ AppFrame

\* Math.max(0, n)
MaxZero(n) == IF n < 0 THEN 0 ELSE n

\* the decrement deleteClient applies to totalClients
Decremented(total) == MaxZero(total - 1)

\* deleteClient(id): clientService.delete removes the user's row of that id, if there is
\* one, and reports no error if there is none; then the id is filtered out of the list and
\* totalClients is lowered; without a user delete throws and nothing changes
deleteClient(id) ==
    /\ IF user = SignedOut
       THEN UNCHANGED <<dbClients, app>>
       ELSE LET Kept(row) == ~(row.id = id /\ row.user_id = user)
                Other(c) == c # id
            IN  /\ dbClients' = SelectSeq(dbClients, Kept)
                /\ app' = [app EXCEPT !.clients = SelectSeq(app.clients, Other),
                                      !.totalClients = Decremented(app.totalClients)]
    /\ UNCHANGED <<user, loads>>
    /\ AppFrame

AppNext ==
    \/ \E u \in Users, l \in Loads : AppSignIn(u, l)
    \/ AppSignOut
    \/ \E l \in Loads : RefreshData(l)
    \/ \E l \in Loads : LoadAuthenticated(l)
    \/ \E l \in Loads : LoadLists(l)
    \/ \E l \in Loads : LoadMetrics(l)
    \/ addClient
    \/ \E id \in AppClientIds : deleteClient(id)

SpecApp == AppInit /\ [][AppNext]_vars

\* no call of loadData is between its start and its end
NoLoadInFlight == \A l \in Loads : loads[l].pc = "idle"

\* C29: whenever no loadData is in flight, metrics.totalClients is the length of the
\* clients list, whatever loadData, addClient and deleteClient calls came before, a
\* deleteClient of an id that is not in the list included.
C29_TotalClientsMatchesList ==
    NoLoadInFlight => app.totalClients = Len(app.clients)

\* C30: once the user is signed out and every loadData call is over, clients and invoices
\* are empty, the metrics are the default ones and isLoading is false; and isLoading is
\* never false while the loadData call started last is still in flight.
C30_LogoutClearsState ==
    /\ (user = SignedOut /\ NoLoadInFlight) =>
            /\ app.clients = <<>>
            /\ app.invoices = <<>>
            /\ app.totalClients = 0
            /\ ~app.isLoading
    /\ (app.latest # 0 /\ loads[app.latest].pc # "idle") => app.isLoading

====
